---- MODULE Spec2Model ----
(***************************************************************************)
(* A model of libauth's BCH instruction-set orchestrator                   *)
(* (src/lib/auth/instruction-sets/bch/bch-instruction-sets.ts) and of the  *)
(* BTL script reducer (src/lib/auth/templates/language/reduce.ts).         *)
(*                                                                         *)
(* Bytecode is a sequence of bytes (0..255).  `undefined` program-state    *)
(* errors are the string "none".  The virtual machine, the instruction     *)
(* parser and the push encoder live outside the files modelled here; they  *)
(* are modelled from the specification (sections 4.5 - 4.7).               *)
(***************************************************************************)
EXTENDS Integers, Sequences, FiniteSets, TLC

VARIABLES
  program,          \* evaluate: the AuthenticationProgramBCH being evaluated
  pc,               \* evaluate: position inside `evaluate`
  unlockingResult,  \* evaluate: const unlockingResult (line 187)
  lockingResult,    \* evaluate: const lockingResult (line 220)
  result,           \* evaluate: the state `evaluate` returned
  calls,            \* evaluate: the calls made to the `stateEvaluate` callback
  verdict,          \* verify(result), once computed
  compiledScript,   \* reduceScript: the ResolvedScript being reduced
  machine,          \* reduceScript: whether `vm` and `createState` are given
  reduction,        \* reduceScript: the node returned
  thrown,           \* reduceScript: whether the call threw a TypeError
  rangesGiven,      \* mergeRanges: the list of ranges merged
  mergedRange,      \* mergeRanges: the range returned
  givenEnvironment, \* resolve: the CompilationEnvironment
  givenScriptId,    \* resolve: the id of the script being compiled, if any
  givenIdentifier,  \* resolve: the identifier to resolve
  givenSegment,     \* resolve: the BtlScriptSegment to resolve
  variableReturned,     \* what resolveVariableIdentifier returned
  resolutionReturned,   \* what the identifier resolver returned
  scriptReturned,       \* what resolveScriptSegment returned
  compilationReturned,  \* what compileScript returned
  bech32Given,      \* isBech32: the string tested, character by character
  bech32Returned,   \* isBech32: the boolean returned
  bytesGiven,       \* binToBech32Padded: the Uint8Array to encode
  paddedGiven,      \* bech32PaddedToBin: the string to decode
  binReturned,      \* what bech32PaddedToBin returned
  paddedReturned,   \* the string binToBech32Padded returned
  wasmCall,         \* hashes: the wrapper called and its Uint8Array arguments
  wasmMemory,       \* hashes: the linear memory of the WebAssembly instance
  wasmLocals,       \* hashes: ptr0 and ptr1, ptr, realRet, the exception caught
  wasmLog,          \* hashes: the calls into the module and the copies, in order
  wasmReturned      \* hashes: what the wrapper returned

evaluateVars ==
  <<program, unlockingResult, lockingResult, result, calls, verdict>>

reduceVars == <<compiledScript, machine, reduction, thrown>>

mergeVars == <<rangesGiven, mergedRange>>

\* the variables which the steps of one operation leave alone
resolveGiven ==
  <<givenEnvironment, givenScriptId, givenIdentifier, givenSegment>>

resolveReturned ==
  <<variableReturned, resolutionReturned, scriptReturned, compilationReturned>>

resolveVars == <<resolveGiven, resolveReturned>>

bech32Vars ==
  <<bech32Given, bech32Returned, bytesGiven, paddedGiven, binReturned,
    paddedReturned>>

wasmVars == <<wasmCall, wasmMemory, wasmLocals, wasmLog, wasmReturned>>

outsideEvaluate ==
  <<reduceVars, mergeVars, resolveVars, bech32Vars, wasmVars>>

outsideReduce ==
  <<evaluateVars, mergeVars, resolveVars, bech32Vars, wasmVars>>

outsideMerge ==
  <<evaluateVars, reduceVars, resolveVars, bech32Vars, wasmVars>>

outsideResolve ==
  <<evaluateVars, reduceVars, mergeVars, bech32Vars, wasmVars>>

outsideBech32 ==
  <<evaluateVars, reduceVars, mergeVars, resolveVars, wasmVars>>

outsideWasm ==
  <<evaluateVars, reduceVars, mergeVars, resolveVars, bech32Vars>>

vars ==
  <<pc, evaluateVars, reduceVars, mergeVars, resolveVars, bech32Vars,
    wasmVars>>

(***************************************************************************)
(* Bounds of the model.                                                    *)
(***************************************************************************)
MaxRawLen == 2      \* raw bytecodes enumerated byte by byte up to this length
MaxExtraPushes == 1 \* pushes placed below the top unlocking stack item
MaxPointers == 4    \* regions of the WebAssembly memory which can be allocated
MaxGrowths == 1     \* times the WebAssembly memory grows

(***************************************************************************)
(* Opcodes (OpcodesBCH) and consensus constants (ConsensusCommon).         *)
(***************************************************************************)
OP_0 == 0
OP_PUSHBYTES_1 == 1
OP_PUSHBYTES_20 == 20
OP_PUSHBYTES_75 == 75
OP_PUSHDATA_1 == 76
OP_PUSHDATA_2 == 77
OP_PUSHDATA_4 == 78
OP_1NEGATE == 79
OP_RESERVED == 80
OP_1 == 81
OP_16 == 96
OP_NOP == 97
OP_IF == 99
OP_NOTIF == 100
OP_ELSE == 103
OP_ENDIF == 104
OP_VERIFY == 105
OP_RETURN == 106
OP_DROP == 117
OP_DUP == 118
OP_EQUAL == 135
OP_EQUALVERIFY == 136
OP_ADD == 147
OP_HASH160 == 169

maximumBytecodeLength == 10000
maximumPushSize == 520
maximumStackDepth == 1000
maximumOperationCount == 201
maximumScriptNumberLength == 4

NoError == "none"

(***************************************************************************)
(* Byte-sequence helpers.                                                  *)
(***************************************************************************)
Zeros(n) == [i \in 1..n |-> 0]

Last(s) == s[Len(s)]

Front(s) == SubSeq(s, 1, Len(s) - 1)

RECURSIVE flattenBinArray(_)
flattenBinArray(arrays) ==
  IF arrays = <<>> THEN <<>>
  ELSE Head(arrays) \o flattenBinArray(Tail(arrays))

(***************************************************************************)
(* Instruction parser (specification section 4.6).  An instruction is      *)
(* [opcode, data, malformed]; `data` is <<>> for a non-push opcode.        *)
(***************************************************************************)
Instruction(op, data, bad) == [opcode |-> op, data |-> data, malformed |-> bad]

\* number of little-endian length bytes that follow a push opcode
lengthBytes(op) ==
  IF op = OP_PUSHDATA_1 THEN 1
  ELSE IF op = OP_PUSHDATA_2 THEN 2
  ELSE IF op = OP_PUSHDATA_4 THEN 4
  ELSE 0

isPushData(op) == op >= OP_PUSHBYTES_1 /\ op <= OP_PUSHDATA_4

RECURSIVE readLittleEndian(_, _, _)
readLittleEndian(b, from, n) ==
  IF n = 0 THEN 0
  ELSE b[from] + 256 * readLittleEndian(b, from + 1, n - 1)

\* the instruction starting at (1-based) index i, and the index after it
readInstruction(b, i) ==
  LET op == b[i]
      nLen == lengthBytes(op)
  IN IF ~isPushData(op)
       THEN [instruction |-> Instruction(op, <<>>, FALSE), next |-> i + 1]
     ELSE IF i + nLen > Len(b)
       THEN [instruction |-> Instruction(op, SubSeq(b, i + 1, Len(b)), TRUE),
             next |-> Len(b) + 1]
     ELSE LET declared == IF nLen = 0 THEN op
                          ELSE readLittleEndian(b, i + 1, nLen)
              first == i + nLen + 1
              last == i + nLen + declared
          IN IF last > Len(b)
               THEN [instruction |->
                       Instruction(op, SubSeq(b, first, Len(b)), TRUE),
                     next |-> Len(b) + 1]
             ELSE [instruction |->
                     Instruction(op, SubSeq(b, first, last), FALSE),
                   next |-> last + 1]

RECURSIVE parseFrom(_, _)
parseFrom(b, i) ==
  IF i > Len(b) THEN <<>>
  ELSE LET r == readInstruction(b, i)
       IN <<r.instruction>> \o parseFrom(b, r.next)

parseBytecode(b) == parseFrom(b, 1)

authenticationInstructionsAreMalformed(instructions) ==
  Len(instructions) > 0 /\ Last(instructions).malformed

authenticationInstructionsAreNotMalformed(instructions) ==
  ~authenticationInstructionsAreMalformed(instructions)

(***************************************************************************)
(* Minimal data-push encoding (specification section 4.5).                 *)
(***************************************************************************)
encodeDataPush(data) ==
  LET n == Len(data)
  IN IF n = 0 THEN <<OP_0>>
     ELSE IF n = 1 /\ data[1] >= 1 /\ data[1] <= 16
       THEN <<OP_1 + data[1] - 1>>
     ELSE IF n <= OP_PUSHBYTES_75 THEN <<n>> \o data
     ELSE IF n < 256 THEN <<OP_PUSHDATA_1, n>> \o data
     ELSE IF n < 65536 THEN <<OP_PUSHDATA_2, n % 256, n \div 256>> \o data
     ELSE <<OP_PUSHDATA_4, n % 256, (n \div 256) % 256,
            (n \div 65536) % 256, n \div 16777216>> \o data

(***************************************************************************)
(* Virtual machine (specification section 4.7), BCH_2019_05 flags.         *)
(***************************************************************************)
stackItemIsTruthy(item) ==
  \E i \in 1..Len(item) :
    /\ item[i] # 0
    /\ ~(i = Len(item) /\ item[i] = 128)

RECURSIVE magnitude(_, _)
magnitude(item, i) ==
  IF i > Len(item) THEN 0
  ELSE (IF i = Len(item) THEN item[i] % 128 ELSE item[i])
       + 256 * magnitude(item, i + 1)

parseBytesAsScriptNumber(item) ==
  IF item = <<>> THEN 0
  ELSE IF Last(item) >= 128 THEN 0 - magnitude(item, 1)
  ELSE magnitude(item, 1)

RECURSIVE magnitudeBytes(_)
magnitudeBytes(n) ==
  IF n = 0 THEN <<>> ELSE <<n % 256>> \o magnitudeBytes(n \div 256)

bigIntToScriptNumber(n) ==
  IF n = 0 THEN <<>>
  ELSE LET abs == IF n < 0 THEN 0 - n ELSE n
           bytes == magnitudeBytes(abs)
           sign == IF n < 0 THEN 128 ELSE 0
       IN IF Last(bytes) >= 128 THEN bytes \o <<sign>>
          ELSE Front(bytes) \o <<Last(bytes) + sign>>

\* HASH160 is an external collaborator: any deterministic map to 20 bytes
RECURSIVE checksum(_, _)
checksum(item, i) ==
  IF i > Len(item) THEN 0
  ELSE (i * (item[i] + 1) + checksum(item, i + 1)) % 251

hash160(item) ==
  [i \in 1..20 |-> (checksum(item, 1) + 3 * Len(item) + i) % 256]

createAuthenticationProgramExternalStateCommon(prog) == prog.context

createAuthenticationProgramStateCommon(instructions, stack, externalState) ==
  [ instructions |-> instructions,
    ip |-> 0,
    stack |-> stack,
    alternateStack |-> <<>>,
    executionStack |-> <<>>,
    lastCodeSeparator |-> 0 - 1,
    operationCount |-> 0,
    error |-> NoError,
    externalState |-> externalState ]

\* applyError keeps the first error a state received
applyError(error, state) ==
  IF state.error = NoError THEN [state EXCEPT !.error = error] ELSE state

cloneStack(stack) == stack

pushToStack(state, item) == [state EXCEPT !.stack = Append(@, item)]

continue(state) ==
  state.error = NoError /\ state.ip < Len(state.instructions)

\* the operation of one opcode, before the combinators are applied
operation(state, instruction) ==
  LET op == instruction.opcode
      stack == state.stack
      depth == Len(stack)
  IN IF op = OP_0 THEN pushToStack(state, <<>>)
     ELSE IF isPushData(op) THEN
       IF Len(instruction.data) > maximumPushSize
         THEN applyError("exceedsMaximumPush", state)
       ELSE pushToStack(state, instruction.data)
     ELSE IF op = OP_1NEGATE THEN pushToStack(state, <<129>>)
     ELSE IF op = OP_RESERVED THEN applyError("calledReserved", state)
     ELSE IF op >= OP_1 /\ op <= OP_16
       THEN pushToStack(state, <<op - OP_1 + 1>>)
     ELSE IF op = OP_NOP THEN state
     ELSE IF op = OP_VERIFY THEN
       IF depth = 0 THEN applyError("emptyStack", state)
       ELSE IF stackItemIsTruthy(Last(stack))
         THEN [state EXCEPT !.stack = Front(stack)]
       ELSE applyError("failedVerify", [state EXCEPT !.stack = Front(stack)])
     ELSE IF op = OP_RETURN THEN applyError("calledReturn", state)
     ELSE IF op = OP_DROP THEN
       IF depth = 0 THEN applyError("emptyStack", state)
       ELSE [state EXCEPT !.stack = Front(stack)]
     ELSE IF op = OP_DUP THEN
       IF depth = 0 THEN applyError("emptyStack", state)
       ELSE pushToStack(state, Last(stack))
     ELSE IF op = OP_EQUAL \/ op = OP_EQUALVERIFY THEN
       IF depth < 2 THEN applyError("emptyStack", state)
       ELSE LET equal == stack[depth] = stack[depth - 1]
                rest == SubSeq(stack, 1, depth - 2)
            IN IF op = OP_EQUAL
                 THEN [state EXCEPT
                         !.stack = Append(rest, IF equal THEN <<1>> ELSE <<>>)]
               ELSE IF equal THEN [state EXCEPT !.stack = rest]
               ELSE applyError("failedVerify", [state EXCEPT !.stack = rest])
     ELSE IF op = OP_ADD THEN
       IF depth < 2 THEN applyError("emptyStack", state)
       ELSE IF Len(stack[depth]) > maximumScriptNumberLength
               \/ Len(stack[depth - 1]) > maximumScriptNumberLength
         THEN applyError("invalidNaturalNumber", state)
       ELSE [state EXCEPT !.stack =
               Append(SubSeq(stack, 1, depth - 2),
                      bigIntToScriptNumber(
                        parseBytesAsScriptNumber(stack[depth - 1])
                        + parseBytesAsScriptNumber(stack[depth])))]
     ELSE IF op = OP_HASH160 THEN
       IF depth = 0 THEN applyError("emptyStack", state)
       ELSE [state EXCEPT !.stack = Append(Front(stack), hash160(Last(stack)))]
     ELSE applyError("unknownOpcode", state)

isExecuting(state) ==
  \A i \in 1..Len(state.executionStack) : state.executionStack[i]

\* IF / NOTIF / ELSE / ENDIF act on the execution stack whether or not the
\* surrounding branch is executing
conditionalFlowOperation(state, op) ==
  IF op = OP_IF \/ op = OP_NOTIF THEN
    IF ~isExecuting(state)
      THEN [state EXCEPT !.executionStack = Append(@, FALSE)]
    ELSE IF Len(state.stack) = 0 THEN applyError("emptyStack", state)
    ELSE LET truthy == stackItemIsTruthy(Last(state.stack))
         IN [state EXCEPT
               !.stack = Front(@),
               !.executionStack =
                 Append(@, IF op = OP_IF THEN truthy ELSE ~truthy)]
  ELSE IF op = OP_ELSE THEN
    IF Len(state.executionStack) = 0
      THEN applyError("unexpectedElse", state)
    ELSE [state EXCEPT !.executionStack =
            Append(Front(@), ~Last(@))]
  ELSE
    IF Len(state.executionStack) = 0
      THEN applyError("unexpectedEndIf", state)
    ELSE [state EXCEPT !.executionStack = Front(@)]

isConditionalFlow(op) ==
  op = OP_IF \/ op = OP_NOTIF \/ op = OP_ELSE \/ op = OP_ENDIF

conditionallyEvaluate(state, instruction) ==
  IF isConditionalFlow(instruction.opcode)
    THEN conditionalFlowOperation(state, instruction.opcode)
  ELSE IF isExecuting(state) THEN operation(state, instruction)
  ELSE state

incrementOperationCount(state, instruction) ==
  IF instruction.opcode > OP_16
    THEN [state EXCEPT !.operationCount = @ + 1]
  ELSE state

checkLimitsCommon(state) ==
  IF state.operationCount > maximumOperationCount
    THEN applyError("exceededMaximumOperationCount", state)
  ELSE IF Len(state.stack) + Len(state.alternateStack) > maximumStackDepth
    THEN applyError("exceededMaximumStackDepth", state)
  ELSE state

\* one instruction: the operation under its combinators, then ip + 1
stateStep(state) ==
  LET instruction == state.instructions[state.ip + 1]
      after == checkLimitsCommon(
                 conditionallyEvaluate(
                   incrementOperationCount(state, instruction), instruction))
  IN [after EXCEPT !.ip = @ + 1]

RECURSIVE stateEvaluate(_)
stateEvaluate(state) ==
  IF continue(state) THEN stateEvaluate(stateStep(state)) ELSE state

\* the trace of intermediate states, one per executed instruction
RECURSIVE stateDebug(_)
stateDebug(state) ==
  IF continue(state)
    THEN LET next == stateStep(state) IN <<next>> \o stateDebug(next)
  ELSE <<>>

(***************************************************************************)
(* bch-instruction-sets.ts: the P2SH and SegWit-recovery tests.            *)
(***************************************************************************)
PayToScriptHashLength == 3
PayToScriptHashLastElement == 2
SegWitMinimumLength == 4
SegWitMaximumLength == 42
SegWitVersionAndLengthBytes == 2

isPayToScriptHash(verificationInstructions) ==
  /\ Len(verificationInstructions) = PayToScriptHashLength
  /\ verificationInstructions[1].opcode = OP_HASH160
  /\ verificationInstructions[2].opcode = OP_PUSHBYTES_20
  /\ verificationInstructions[PayToScriptHashLastElement + 1].opcode = OP_EQUAL

\* mutant: the maximum length is excluded
isWitnessProgramShortMaximum(bytecode) ==
  /\ Len(bytecode) >= SegWitMinimumLength
  /\ Len(bytecode) < SegWitMaximumLength
  /\ (bytecode[1] = OP_0 \/ (bytecode[1] >= OP_1 /\ bytecode[1] <= OP_16))
  /\ bytecode[2] + SegWitVersionAndLengthBytes = Len(bytecode)

\* bytecode[0] and bytecode[1] are `undefined` past the end of the array, and
\* every comparison with `undefined` (or NaN) is false
isWitnessProgram(bytecode) ==
  LET correctLength ==
        /\ Len(bytecode) >= SegWitMinimumLength
        /\ Len(bytecode) <= SegWitMaximumLength
      validVersionPush ==
        /\ Len(bytecode) > 0
        /\ \/ bytecode[1] = OP_0
           \/ (bytecode[1] >= OP_1 /\ bytecode[1] <= OP_16)
      correctLengthByte ==
        /\ Len(bytecode) > 1
        /\ bytecode[2] + SegWitVersionAndLengthBytes = Len(bytecode)
  IN correctLength /\ validVersionPush /\ correctLengthByte

\* mutant: OP_16 counts as a push
isPushOperationThroughOp16(opcode) == opcode <= OP_16

isPushOperation(opcode) == opcode < OP_16

(***************************************************************************)
(* createInstructionSetBCH(...).evaluate, lines 172-250.                   *)
(***************************************************************************)
unlockingInstructions(prog) == parseBytecode(prog.unlockingBytecode)

lockingInstructions(prog) == parseBytecode(prog.lockingBytecode)

initialState(prog) ==
  createAuthenticationProgramStateCommon(
    unlockingInstructions(prog), <<>>,
    createAuthenticationProgramExternalStateCommon(prog))

\* mutant: the locking length is checked before the unlocking instructions
preCheckErrorLengthsFirst(prog) ==
  IF Len(prog.unlockingBytecode) > maximumBytecodeLength
    THEN "exceededMaximumBytecodeLengthUnlocking"
  ELSE IF Len(prog.lockingBytecode) > maximumBytecodeLength
    THEN "exceededMaximumBytecodeLengthLocking"
  ELSE IF authenticationInstructionsAreMalformed(unlockingInstructions(prog))
    THEN "malformedUnlockingBytecode"
  ELSE IF authenticationInstructionsAreMalformed(lockingInstructions(prog))
    THEN "malformedLockingBytecode"
  ELSE IF \A i \in 1..Len(initialState(prog).instructions) :
            isPushOperation(initialState(prog).instructions[i].opcode)
    THEN NoError
  ELSE "requiresPushOnly"

\* the chain of conditional expressions of lines 187-215: the error of the
\* first failing pre-check, or NoError when the unlocking state is evaluated
preCheckError(prog) ==
  IF Len(prog.unlockingBytecode) > maximumBytecodeLength
    THEN "exceededMaximumBytecodeLengthUnlocking"
  ELSE IF authenticationInstructionsAreMalformed(unlockingInstructions(prog))
    THEN "malformedUnlockingBytecode"
  ELSE IF Len(prog.lockingBytecode) > maximumBytecodeLength
    THEN "exceededMaximumBytecodeLengthLocking"
  ELSE IF authenticationInstructionsAreMalformed(lockingInstructions(prog))
    THEN "malformedLockingBytecode"
  ELSE IF \A i \in 1..Len(initialState(prog).instructions) :
            isPushOperation(initialState(prog).instructions[i].opcode)
    THEN NoError
  ELSE "requiresPushOnly"

Call(phase, state) == [phase |-> phase, state |-> state]

\* lines 172-215: parse both bytecodes, build the initial state, run the
\* pre-checks and, when they pass, evaluate the unlocking instructions
EvaluateUnlocking ==
  /\ pc = "start"
  /\ LET error == preCheckError(program)
     IN IF error = NoError
          THEN /\ unlockingResult' = stateEvaluate(initialState(program))
               /\ calls' = Append(calls, Call("unlocking", initialState(program)))
        ELSE /\ unlockingResult' = applyError(error, initialState(program))
             /\ calls' = calls
  /\ pc' = "unlocked"
  /\ UNCHANGED <<outsideEvaluate, program, lockingResult, result, verdict>>

\* lines 217-219
ReturnUnlockingError ==
  /\ pc = "unlocked"
  /\ unlockingResult.error # NoError
  /\ result' = unlockingResult
  /\ pc' = "done"
  /\ UNCHANGED <<outsideEvaluate, program, unlockingResult, lockingResult, calls, verdict>>

\* mutant: the unlocking stack is not carried forward
lockingStateEmptyStack(prog, unlocked) ==
  createAuthenticationProgramStateCommon(
    lockingInstructions(prog), <<>>,
    createAuthenticationProgramExternalStateCommon(prog))

lockingState(prog, unlocked) ==
  createAuthenticationProgramStateCommon(
    lockingInstructions(prog), unlocked.stack,
    createAuthenticationProgramExternalStateCommon(prog))

\* mutant: the locking bytecode is evaluated whatever the unlocking error
EvaluateLockingUnguarded ==
  /\ pc = "unlocked"
  /\ lockingResult' = stateEvaluate(lockingState(program, unlockingResult))
  /\ calls' = Append(calls, Call("locking", lockingState(program, unlockingResult)))
  /\ pc' = "locked"
  /\ UNCHANGED <<outsideEvaluate, program, unlockingResult, result, verdict>>

\* lines 220-225
EvaluateLocking ==
  /\ pc = "unlocked"
  /\ unlockingResult.error = NoError
  /\ lockingResult' = stateEvaluate(lockingState(program, unlockingResult))
  /\ calls' = Append(calls, Call("locking", lockingState(program, unlockingResult)))
  /\ pc' = "locked"
  /\ UNCHANGED <<outsideEvaluate, program, unlockingResult, result, verdict>>

\* lines 226-228
ReturnLockingResult ==
  /\ pc = "locked"
  /\ ~isPayToScriptHash(lockingInstructions(program))
  /\ result' = lockingResult
  /\ pc' = "done"
  /\ UNCHANGED <<outsideEvaluate, program, unlockingResult, lockingResult, calls, verdict>>

\* mutant: the redeem script stays on the stack it is evaluated on
p2shStackUnpopped(unlocked) == cloneStack(unlocked.stack)

\* lines 230-232: the clone of the unlocking stack after its pop()
p2shStack(unlocked) ==
  IF Len(unlocked.stack) = 0 THEN <<>> ELSE Front(cloneStack(unlocked.stack))

\* lines 230-232: the popped item, or an empty array when the stack was empty
p2shScript(unlocked) ==
  IF Len(unlocked.stack) = 0 THEN <<>> ELSE Last(cloneStack(unlocked.stack))

\* line 234
isSegWitRecovery(unlocked) ==
  Len(p2shStack(unlocked)) = 0 /\ isWitnessProgram(p2shScript(unlocked))

\* lines 230-236
ReturnSegWitRecovery ==
  /\ pc = "locked"
  /\ isPayToScriptHash(lockingInstructions(program))
  /\ isSegWitRecovery(unlockingResult)
  /\ result' = lockingResult
  /\ pc' = "done"
  /\ UNCHANGED <<outsideEvaluate, program, unlockingResult, lockingResult, calls, verdict>>

p2shInstructions(unlocked) == parseBytecode(p2shScript(unlocked))

p2shState(prog, unlocked) ==
  createAuthenticationProgramStateCommon(
    p2shInstructions(unlocked), p2shStack(unlocked),
    createAuthenticationProgramExternalStateCommon(prog))

\* mutant: the redeem script is evaluated and the locking result returned
EvaluateP2shReturnsLocking ==
  /\ pc = "locked"
  /\ isPayToScriptHash(lockingInstructions(program))
  /\ ~isSegWitRecovery(unlockingResult)
  /\ IF authenticationInstructionsAreMalformed(p2shInstructions(unlockingResult))
       THEN /\ result' = [lockingResult EXCEPT !.error = "malformedP2shBytecode"]
            /\ calls' = calls
     ELSE /\ result' = lockingResult
          /\ calls' = Append(calls, Call("p2sh", p2shState(program, unlockingResult)))
  /\ pc' = "done"
  /\ UNCHANGED <<outsideEvaluate, program, unlockingResult, lockingResult, verdict>>

\* lines 238-249
EvaluateP2sh ==
  /\ pc = "locked"
  /\ isPayToScriptHash(lockingInstructions(program))
  /\ ~isSegWitRecovery(unlockingResult)
  /\ IF authenticationInstructionsAreMalformed(p2shInstructions(unlockingResult))
       THEN /\ result' = [lockingResult EXCEPT !.error = "malformedP2shBytecode"]
            /\ calls' = calls
     ELSE /\ result' = stateEvaluate(p2shState(program, unlockingResult))
          /\ calls' = Append(calls, Call("p2sh", p2shState(program, unlockingResult)))
  /\ pc' = "done"
  /\ UNCHANGED <<outsideEvaluate, program, unlockingResult, lockingResult, verdict>>

(***************************************************************************)
(* createInstructionSetBCH(...).verify, lines 269-273.                     *)
(***************************************************************************)
\* mutant: the number of stack items is not checked
verifyAnyDepth(state) ==
  /\ state.error = NoError
  /\ Len(state.executionStack) = 0
  /\ Len(state.stack) >= 1
  /\ stackItemIsTruthy(Last(state.stack))

verify(state) ==
  /\ state.error = NoError
  /\ Len(state.executionStack) = 0
  /\ Len(state.stack) = 1
  /\ stackItemIsTruthy(state.stack[1])

Verify ==
  /\ pc = "done"
  /\ verdict' = verify(result)
  /\ pc' = "verified"
  /\ UNCHANGED <<outsideEvaluate, program, unlockingResult, lockingResult, result, calls>>

(***************************************************************************)
(* reduce.ts: ranges, resolved segments and reduction trace nodes.         *)
(*                                                                         *)
(* A resolved segment is [type, value, script, text, range]: `value` holds *)
(* the bytes of a bytecode segment, `script` the child ResolvedScript of a *)
(* push or an evaluation, `text` the string of a comment or an error.  An  *)
(* optional list (errors?) is [defined, list].                             *)
(***************************************************************************)
Range(startLineNumber, startColumn, endLineNumber, endColumn) ==
  [ startLineNumber |-> startLineNumber, startColumn |-> startColumn,
    endLineNumber |-> endLineNumber, endColumn |-> endColumn ]

pluckStartPosition(range) ==
  [startColumn |-> range.startColumn, startLineNumber |-> range.startLineNumber]

pluckEndPosition(range) ==
  [endColumn |-> range.endColumn, endLineNumber |-> range.endLineNumber]

\* mutant: positions are compared by their line numbers only
mergeStepByLine(merged, range) ==
  LET start == IF range.startLineNumber < merged.startLineNumber
                 THEN pluckStartPosition(range)
               ELSE pluckStartPosition(merged)
      end == IF range.endLineNumber > merged.endLineNumber
               THEN pluckEndPosition(range)
             ELSE pluckEndPosition(merged)
  IN Range(start.startLineNumber, start.startColumn,
           end.endLineNumber, end.endColumn)

\* the reducer function of lines 30-43
mergeStep(merged, range) ==
  LET start == IF range.startLineNumber < merged.startLineNumber
                 THEN pluckStartPosition(range)
               ELSE IF /\ range.startLineNumber = merged.startLineNumber
                       /\ range.startColumn < merged.startColumn
                 THEN pluckStartPosition(range)
               ELSE pluckStartPosition(merged)
      end == IF range.endLineNumber > merged.endLineNumber
               THEN pluckEndPosition(range)
             ELSE IF /\ range.endLineNumber = merged.endLineNumber
                     /\ range.endColumn > merged.endColumn
               THEN pluckEndPosition(range)
             ELSE pluckEndPosition(merged)
  IN Range(start.startLineNumber, start.startColumn,
           end.endLineNumber, end.endColumn)

RECURSIVE mergeFold(_, _, _)
mergeFold(merged, ranges, i) ==
  IF i > Len(ranges) THEN merged
  ELSE mergeFold(mergeStep(merged, ranges[i]), ranges, i + 1)

\* ranges is not empty: ranges[0] of an empty list is `undefined`, and
\* plucking a position of `undefined` throws
mergeRanges(ranges) ==
  LET unsortedMerged == mergeFold(ranges[1], ranges, 1)
  IN Range(unsortedMerged.startLineNumber, unsortedMerged.startColumn,
           unsortedMerged.endLineNumber, unsortedMerged.endColumn)

BytecodeSegment(value, range) ==
  [type |-> "bytecode", value |-> value, script |-> <<>>, text |-> "",
   range |-> range]

PushSegment(script, range) ==
  [type |-> "push", value |-> <<>>, script |-> script, text |-> "",
   range |-> range]

EvaluationSegment(script, range) ==
  [type |-> "evaluation", value |-> <<>>, script |-> script, text |-> "",
   range |-> range]

CommentSegment(text, range) ==
  [type |-> "comment", value |-> <<>>, script |-> <<>>, text |-> text,
   range |-> range]

ErrorSegment(text, range) ==
  [type |-> "error", value |-> <<>>, script |-> <<>>, text |-> text,
   range |-> range]

Absent == [defined |-> FALSE, list |-> <<>>]

Present(list) == [defined |-> TRUE, list |-> list]

\* `subject` is the bytecode a message disassembles, <<>> when it has none
ErrorInformation(error, subject, range) ==
  [error |-> error, subject |-> subject, range |-> range]

\* a ScriptReductionTraceNode; `source` and `samples` are <<>> where the
\* node has none
TraceNode(bytecode, range, errors, source, samples) ==
  [bytecode |-> bytecode, range |-> range, errors |-> errors,
   source |-> source, samples |-> samples]

emptyReductionTraceNode(range) == TraceNode(<<>>, range, Absent, <<>>, <<>>)

(***************************************************************************)
(* reduce.ts: evaluation of the reduced child nodes of an evaluation.      *)
(* Each `const` of the source is the parameter of the operator that models *)
(* the statements after it.                                                *)
(***************************************************************************)
\* the state factory handed to reduceScript
createState(instructions) ==
  createAuthenticationProgramStateCommon(instructions, <<>>, "compilation")

Aggregation(instructions, lastIp, range) ==
  [instructions |-> instructions, lastIp |-> lastIp, range |-> range]

Incomplete(bytecode, range) ==
  [defined |-> TRUE, bytecode |-> bytecode, range |-> range]

NotIncomplete == [defined |-> FALSE, bytecode |-> <<>>, range |-> Range(0, 0, 0, 0)]

RECURSIVE aggregateFrom(_, _, _, _, _)

\* lines 138-158: the branches on `parsed`
aggregateParsed(nodes, i, ip, aggregations, bytecode, range, parsed) ==
  IF Len(parsed) = 0
    THEN aggregateFrom(nodes, i + 1, ip, NotIncomplete,
           Append(aggregations, Aggregation(<<>>, ip, range)))
  ELSE IF authenticationInstructionsAreNotMalformed(parsed)
    THEN aggregateFrom(nodes, i + 1, ip + Len(parsed), NotIncomplete,
           Append(aggregations, Aggregation(parsed, ip + Len(parsed), range)))
  ELSE aggregateFrom(nodes, i + 1, ip, Incomplete(bytecode, range),
                     aggregations)

\* mutant: each node is parsed on its own
aggregateBytecodeUnmerged(nodes, i, ip, aggregations, bytecode, range) ==
  aggregateParsed(nodes, i, ip, aggregations, nodes[i].bytecode,
                  nodes[i].range, parseBytecode(nodes[i].bytecode))

\* line 136
aggregateBytecode(nodes, i, ip, aggregations, bytecode, range) ==
  aggregateParsed(nodes, i, ip, aggregations, bytecode, range,
                  parseBytecode(bytecode))

\* the loop of lines 125-159, from node i on
aggregateFrom(nodes, i, ip, incomplete, aggregations) ==
  IF i > Len(nodes)
    THEN [aggregations |-> aggregations, incomplete |-> incomplete]
  ELSE aggregateBytecode(nodes, i, ip, aggregations,
         IF ~incomplete.defined THEN nodes[i].bytecode
         ELSE flattenBinArray(<<incomplete.bytecode, nodes[i].bytecode>>),
         IF ~incomplete.defined THEN nodes[i].range
         ELSE mergeRanges(<<incomplete.range, nodes[i].range>>))

\* lines 160-170
aggregationResult(looped) ==
  [ aggregations |-> looped.aggregations,
    success |-> ~looped.incomplete.defined,
    remainingBytecode |-> looped.incomplete.bytecode,
    remainingRange |-> looped.incomplete.range ]

aggregatedParseReductionTraceNodes(nodes) ==
  aggregationResult(aggregateFrom(nodes, 1, 0, NotIncomplete, <<>>))

\* evaluationPlan.instructions, lines 190-205
RECURSIVE planInstructions(_)
planInstructions(aggregations) ==
  IF aggregations = <<>> THEN <<>>
  ELSE Head(aggregations).instructions \o planInstructions(Tail(aggregations))

\* a sample of lines 209-212; `state` is undefined when the trace has no
\* such entry
Sample(range, trace, index) ==
  IF index >= 1 /\ index <= Len(trace)
    THEN [range |-> range, defined |-> TRUE, state |-> trace[index]]
  ELSE [range |-> range, defined |-> FALSE, state |-> createState(<<>>)]

\* lines 207-212: trace[breakpoint.ip - 1] is the lastIp-th state of the trace
samplesOf(nonEmptyAggregations, trace) ==
  [k \in 1..Len(nonEmptyAggregations) |->
     Sample(nonEmptyAggregations[k].range, trace,
            nonEmptyAggregations[k].lastIp)]

\* findIndex of the first sample without a state, 0-based, -1 when none
firstInvalidSampleOf(samples) ==
  IF \A k \in 1..Len(samples) : samples[k].defined THEN 0 - 1
  ELSE (CHOOSE k \in 1..Len(samples) :
          /\ ~samples[k].defined
          /\ \A j \in 1..(k - 1) : samples[j].defined) - 1

\* samples[firstInvalidSample - 1] ?? samples[firstInvalidSample]
errorSampleOf(samples, firstInvalidSample) ==
  IF firstInvalidSample - 1 >= 0
    THEN Present(<<samples[firstInvalidSample]>>)
  ELSE IF firstInvalidSample >= 0
    THEN Present(<<samples[firstInvalidSample + 1]>>)
  ELSE Absent

\* `${errorSample.state.error}`
errorText(state) == IF state.error = NoError THEN "undefined" ELSE state.error

\* lines 221-238
aggregationEvaluation(samples, errorSample) ==
  IF ~errorSample.defined
    THEN [samples |-> samples, success |-> TRUE, errors |-> <<>>]
  ELSE [ samples |-> samples, success |-> FALSE,
         errors |->
           << ErrorInformation(
                IF ~errorSample.list[1].defined
                  THEN "Failed to reduce evaluation: vm.debug produced no valid program states."
                ELSE "Failed to reduce evaluation: "
                       \o errorText(errorSample.list[1].state),
                <<>>, errorSample.list[1].range) >> ]

\* lines 213-238
evaluateSamples(samples) ==
  aggregationEvaluation(samples,
    errorSampleOf(samples, firstInvalidSampleOf(samples)))

\* lines 190-212
evaluatePlan(nonEmptyAggregations) ==
  evaluateSamples(
    samplesOf(nonEmptyAggregations,
              stateDebug(createState(planInstructions(nonEmptyAggregations)))))

\* mutant: the aggregations without instructions are sampled too
nonEmptyOrNot(aggregation) == Len(aggregation.instructions) >= 0

nonEmpty(aggregation) == Len(aggregation.instructions) > 0

evaluateInstructionAggregations(aggregations) ==
  evaluatePlan(SelectSeq(aggregations, nonEmpty))

\* mutant: the top stack item is wrapped in a data push
evaluationResultPushed(lastSample) ==
  IF Len(lastSample.state.stack) = 0 THEN <<>>
  ELSE encodeDataPush(Last(lastSample.state.stack))

\* lines 274-279
evaluationResultOf(lastSample) ==
  IF Len(lastSample.state.stack) = 0 THEN <<>>
  ELSE Last(lastSample.state.stack)

\* lines 274-284
sampledSuccess(samples) ==
  [ bytecode |-> evaluationResultOf(Last(samples)), samples |-> samples,
    success |-> TRUE, errors |-> <<>> ]

\* lines 269-304
sampledEvaluation(parsed, evaluated) ==
  IF parsed.success /\ evaluated.success
    THEN sampledSuccess(
           IF Len(evaluated.samples) > 0 THEN evaluated.samples
           ELSE << [range |-> parsed.aggregations[1].range,
                    defined |-> TRUE, state |-> createState(<<>>)] >>)
  ELSE [ bytecode |-> <<>>,
         errors |->
           (IF parsed.success THEN <<>>
            ELSE << ErrorInformation(
                      "A sample is malformed and cannot be evaluated: ",
                      parsed.remainingBytecode, parsed.remainingRange) >>)
           \o (IF evaluated.success THEN <<>> ELSE evaluated.errors),
         samples |-> evaluated.samples,
         success |-> FALSE ]

\* lines 263-267
sampledEvaluateParsed(parsed) ==
  sampledEvaluation(parsed,
                    evaluateInstructionAggregations(parsed.aggregations))

sampledEvaluateReductionTraceNodes(nodes) ==
  sampledEvaluateParsed(aggregatedParseReductionTraceNodes(nodes))

(***************************************************************************)
(* reduce.ts: reduceScript, lines 314-433.  `mach` tells whether the `vm`  *)
(* and `createState` arguments are given.                                  *)
(***************************************************************************)
RECURSIVE reduceScript(_, _)

\* mutant: the child bytecode is emitted without its push prefix
pushNodeUnencoded(segment, push) ==
  TraceNode(push.bytecode, segment.range, push.errors, <<push>>, <<>>)

\* lines 339-345
pushNode(segment, push) ==
  TraceNode(encodeDataPush(push.bytecode), segment.range, push.errors,
            <<push>>, <<>>)

\* lines 375-387
evaluationNodeWith(segment, reductionTrace, evaluated, errors) ==
  IF Len(errors) > 0
    THEN TraceNode(<<>>, segment.range, Present(errors),
                   <<reductionTrace>>, evaluated.samples)
  ELSE TraceNode(evaluated.bytecode, segment.range, Absent,
                 <<reductionTrace>>, evaluated.samples)

\* lines 371-387
evaluationNodeOf(segment, reductionTrace, evaluated) ==
  evaluationNodeWith(segment, reductionTrace, evaluated,
    (IF ~reductionTrace.errors.defined THEN <<>>
     ELSE reductionTrace.errors.list)
    \o (IF evaluated.success THEN <<>> ELSE evaluated.errors))

\* lines 366-387
evaluationNode(segment, reductionTrace) ==
  evaluationNodeOf(segment, reductionTrace,
                   sampledEvaluateReductionTraceNodes(reductionTrace.source))

\* mutant: only the VM is required to reduce an evaluation
reduceSegmentWithVm(segment, mach) ==
  CASE segment.type = "bytecode" ->
         TraceNode(segment.value, segment.range, Absent, <<>>, <<>>)
    [] segment.type = "push" ->
         IF Len(segment.script) = 0
           THEN emptyReductionTraceNode(segment.range)
         ELSE pushNode(segment, reduceScript(segment.script, mach))
    [] segment.type = "evaluation" ->
         IF Len(segment.script) = 0
           THEN emptyReductionTraceNode(segment.range)
         ELSE IF ~mach.vm
           THEN TraceNode(<<>>, segment.range,
                  Present(<< ErrorInformation(
                    "Both a VM and a createState method are required to reduce evaluations.",
                    <<>>, segment.range) >>),
                  <<>>, <<>>)
         ELSE evaluationNode(segment, reduceScript(segment.script, mach))
    [] segment.type = "comment" -> emptyReductionTraceNode(segment.range)
    [] segment.type = "error" ->
         TraceNode(<<>>, segment.range,
           Present(<< ErrorInformation(
             "Tried to reduce a BTL script with resolution errors: "
               \o segment.text,
             <<>>, segment.range) >>),
           <<>>, <<>>)

\* the callback of compiledScript.map, lines 328-407
reduceSegment(segment, mach) ==
  CASE segment.type = "bytecode" ->
         TraceNode(segment.value, segment.range, Absent, <<>>, <<>>)
    [] segment.type = "push" ->
         IF Len(segment.script) = 0
           THEN emptyReductionTraceNode(segment.range)
         ELSE pushNode(segment, reduceScript(segment.script, mach))
    [] segment.type = "evaluation" ->
         IF Len(segment.script) = 0
           THEN emptyReductionTraceNode(segment.range)
         ELSE IF ~mach.vm \/ ~mach.createState
           THEN TraceNode(<<>>, segment.range,
                  Present(<< ErrorInformation(
                    "Both a VM and a createState method are required to reduce evaluations.",
                    <<>>, segment.range) >>),
                  <<>>, <<>>)
         ELSE evaluationNode(segment, reduceScript(segment.script, mach))
    [] segment.type = "comment" -> emptyReductionTraceNode(segment.range)
    [] segment.type = "error" ->
         TraceNode(<<>>, segment.range,
           Present(<< ErrorInformation(
             "Tried to reduce a BTL script with resolution errors: "
               \o segment.text,
             <<>>, segment.range) >>),
           <<>>, <<>>)

\* lines 413-424: the reducer function of the fold
reductionStep(all, segment) ==
  [ bytecode |-> Append(all.bytecode, segment.bytecode),
    ranges |-> Append(all.ranges, segment.range),
    errors |->
      IF all.errors.defined \/ segment.errors.defined
        THEN Present(
               (IF ~all.errors.defined THEN <<>> ELSE all.errors.list)
               \o (IF ~segment.errors.defined THEN <<>>
                   ELSE segment.errors.list))
      ELSE Absent ]

\* the fold of lines 408-426, from trace node i on
RECURSIVE reductionFrom(_, _, _)
reductionFrom(source, i, all) ==
  IF i > Len(source) THEN all
  ELSE reductionFrom(source, i + 1, reductionStep(all, source[i]))

Reverse(s) == [i \in 1..Len(s) |-> s[Len(s) + 1 - i]]

\* mutant: the children's bytecode is concatenated last child first
containerNodeReversed(source, all) ==
  TraceNode(flattenBinArray(Reverse(all.bytecode)), mergeRanges(all.ranges),
            all.errors, source, <<>>)

\* lines 427-432
containerNode(source, all) ==
  TraceNode(flattenBinArray(all.bytecode), mergeRanges(all.ranges),
            all.errors, source, <<>>)

\* lines 408-432
reduceSource(source) ==
  containerNode(source,
    reductionFrom(source, 1,
      [bytecode |-> <<>>, ranges |-> <<>>, errors |-> Absent]))

reduceScript(compiled, mach) ==
  reduceSource([i \in 1..Len(compiled) |-> reduceSegment(compiled[i], mach)])

NoRange == Range(0, 0, 0, 0)

NoMachine == [vm |-> FALSE, createState |-> FALSE]

\* reduceScript is not being called
ReduceIdle ==
  /\ compiledScript = <<>>
  /\ machine = NoMachine
  /\ reduction = emptyReductionTraceNode(NoRange)
  /\ thrown = FALSE

\* mergeRanges is not being called
MergeIdle ==
  /\ rangesGiven = <<>>
  /\ mergedRange = NoRange

\* reduceScript(compiledScript, vm, createState) as called from outside;
\* merging the ranges of an empty script throws
ReduceScript ==
  /\ pc = "reduce"
  /\ IF Len(compiledScript) = 0
       THEN /\ thrown' = TRUE
            /\ reduction' = reduction
     ELSE /\ thrown' = FALSE
          /\ reduction' = reduceScript(compiledScript, machine)
  /\ pc' = "reduced"
  /\ UNCHANGED <<outsideReduce, compiledScript, machine>>

(***************************************************************************)
(* resolve.ts: identifiers, compiler operations and variables.             *)
(*                                                                         *)
(* An identifier is the sequence of its parts, the texts between its dots, *)
(* which is what identifier.split('.') returns; its text is the parts      *)
(* joined by dots.  An optional value is [defined, value].  What a         *)
(* compiler operation or a resolution returns is [kind, bytecode, text]:   *)
(* a Uint8Array ("bytes"), a string ("string") or `false` ("false").       *)
(* A compiler operation is [name, returns]; the operations invoked are     *)
(* logged with the identifier they were given.                             *)
(***************************************************************************)
RECURSIVE JoinFrom(_, _)
JoinFrom(parts, i) ==
  IF i > Len(parts) THEN ""
  ELSE "." \o parts[i] \o JoinFrom(parts, i + 1)

\* the text of an identifier
Join(parts) == parts[1] \o JoinFrom(parts, 2)

None == [defined |-> FALSE, value |-> ""]

Some(value) == [defined |-> TRUE, value |-> value]

Bytes(bytecode) == [kind |-> "bytes", bytecode |-> bytecode, text |-> ""]

String(text) == [kind |-> "string", bytecode |-> <<>>, text |-> text]

False == [kind |-> "false", bytecode |-> <<>>, text |-> ""]

Operation(name, returns) == [name |-> name, returns |-> returns]

NoOperation == Operation("", False)

\* an entry of environment.operations: undefined, a single operation, or a
\* mapping from operation identifiers to operations
AbsentTable == [kind |-> "absent", operation |-> NoOperation, mapping |-> <<>>]

FunctionTable(op) == [kind |-> "function", operation |-> op, mapping |-> <<>>]

MappingTable(mapping) ==
  [kind |-> "mapping", operation |-> NoOperation, mapping |-> mapping]

\* what a call returns, with the operations it invoked
Returned_(value, invoked) == [value |-> value, invoked |-> invoked]

\* operation(identifier, data, environment)
Invoke(op, identifier) ==
  Returned_(op.returns,
            << [operation |-> op.name, identifier |-> Join(identifier)] >>)

current_block_time == "current_block_time"

current_block_height == "current_block_height"

signing_serialization == "signing_serialization"

BuiltInVariables ==
  {current_block_time, current_block_height, signing_serialization}

\* mutant: an operation identifier is required before the table is tested
\* for being a function
attemptCompilerOperationIdFirst(identifier, matchingOperations, operationExample, operationId, variableId, variableType) ==
  IF matchingOperations.kind = "absent"
    THEN Returned_(String("The \"" \o variableId
           \o "\" variable type can not be resolved because the \""
           \o variableType
           \o "\" operation has not been included in this compiler's CompilationEnvironment."),
           <<>>)
  ELSE IF ~operationId.defined
    THEN Returned_(String("This \"" \o variableId
           \o "\" variable could not be resolved because this compiler's \""
           \o variableType
           \o "\" operations require an operation identifier, e.g. '"
           \o variableId \o "." \o operationExample \o "'."),
           <<>>)
  ELSE IF matchingOperations.kind = "function"
    THEN Invoke(matchingOperations.operation, identifier)
  ELSE IF operationId.value \notin DOMAIN matchingOperations.mapping
    THEN Returned_(String("The identifier \"" \o Join(identifier)
           \o "\" could not be resolved because the \"" \o variableId \o "."
           \o operationId.value
           \o "\" operation is not available to this compiler."),
           <<>>)
  ELSE Invoke(matchingOperations.mapping[operationId.value], identifier)

\* lines 235-279
attemptCompilerOperation(identifier, matchingOperations, operationExample, operationId, variableId, variableType) ==
  IF matchingOperations.kind = "absent"
    THEN Returned_(String("The \"" \o variableId
           \o "\" variable type can not be resolved because the \""
           \o variableType
           \o "\" operation has not been included in this compiler's CompilationEnvironment."),
           <<>>)
  ELSE IF matchingOperations.kind = "function"
    THEN Invoke(matchingOperations.operation, identifier)
  ELSE IF ~operationId.defined
    THEN Returned_(String("This \"" \o variableId
           \o "\" variable could not be resolved because this compiler's \""
           \o variableType
           \o "\" operations require an operation identifier, e.g. '"
           \o variableId \o "." \o operationExample \o "'."),
           <<>>)
  ELSE IF operationId.value \notin DOMAIN matchingOperations.mapping
    THEN Returned_(String("The identifier \"" \o Join(identifier)
           \o "\" could not be resolved because the \"" \o variableId \o "."
           \o operationId.value
           \o "\" operation is not available to this compiler."),
           <<>>)
  ELSE Invoke(matchingOperations.mapping[operationId.value], identifier)

\* environment.operations?.[variableType]
operationsOf(environment, variableType) ==
  IF variableType \in DOMAIN environment.operations
    THEN environment.operations[variableType]
  ELSE AbsentTable

\* the object spread of lines 352-372, by expectedVariable.type
variableTypeOf(type) ==
  CASE type = "AddressData" -> "addressData"
    [] type = "HdKey" -> "hdKey"
    [] type = "Key" -> "key"
    [] type = "WalletData" -> "walletData"

operationExampleOf(type) ==
  IF type \in {"HdKey", "Key"} THEN "public_key" ELSE "operation_identifier"

\* const [variableId, operationId] = identifier.split('.'), lines 305-308
variableIdOf(identifier) == identifier[1]

\* mutant: the operation identifier is all the text after the first dot
operationIdOfRemainder(identifier) ==
  IF Len(identifier) >= 2
    THEN Some(identifier[2] \o JoinFrom(identifier, 3))
  ELSE None

operationIdOf(identifier) ==
  IF Len(identifier) >= 2 THEN Some(identifier[2]) ELSE None

\* lines 293-378
resolveVariableIdentifier(environment, identifier) ==
  CASE variableIdOf(identifier) = current_block_height ->
         attemptCompilerOperation(identifier,
           operationsOf(environment, "currentBlockHeight"),
           "operation_identifier", operationIdOf(identifier),
           variableIdOf(identifier), "currentBlockHeight")
    [] variableIdOf(identifier) = current_block_time ->
         attemptCompilerOperation(identifier,
           operationsOf(environment, "currentBlockTime"),
           "operation_identifier", operationIdOf(identifier),
           variableIdOf(identifier), "currentBlockTime")
    [] variableIdOf(identifier) = signing_serialization ->
         attemptCompilerOperation(identifier,
           operationsOf(environment, "signingSerialization"),
           "version", operationIdOf(identifier),
           variableIdOf(identifier), "signingSerialization")
    [] OTHER ->
         IF variableIdOf(identifier) \notin DOMAIN environment.variables
           THEN Returned_(False, <<>>)
         ELSE attemptCompilerOperation(identifier,
                operationsOf(environment,
                  variableTypeOf(environment.variables[variableIdOf(identifier)])),
                operationExampleOf(environment.variables[variableIdOf(identifier)]),
                operationIdOf(identifier), variableIdOf(identifier),
                variableTypeOf(environment.variables[variableIdOf(identifier)]))

(***************************************************************************)
(* resolve.ts: scripts, the identifier resolver and the resolved tree.     *)
(*                                                                         *)
(* A node of the parse tree is [name, identifier, script, number, hex,     *)
(* utf8, text, range]; the field which holds `value` depends on the name:  *)
(* `identifier` the parts of an Identifier, `script` the BtlScriptSegment  *)
(* [children, range] of a Push or an Evaluation, `number` a BigIntLiteral, *)
(* `hex` the hexadecimal digits of a HexLiteral, `utf8` the code points of *)
(* a UTF8Literal, `text` a Comment.  environment.scripts maps a script id  *)
(* to the BtlScriptSegment its text parses to.                             *)
(*                                                                         *)
(* A resolved segment has the fields the reducer reads and `properties`,   *)
(* the optional properties opcode, variable, script, source, literalType.  *)
(* A call returns [value, invoked, cycles, compilations]: what the code    *)
(* returns, the compiler operations it invoked, the circular dependencies  *)
(* it met and the calls of compileScript made, each with its arguments.    *)
(***************************************************************************)
BtlScript(children, range) == [children |-> children, range |-> range]

NoScript == BtlScript(<<>>, NoRange)

BtlNode(name, identifier, script, number, hex, utf8, text, range) ==
  [name |-> name, identifier |-> identifier, script |-> script,
   number |-> number, hex |-> hex, utf8 |-> utf8, text |-> text,
   range |-> range]

BtlIdentifier(identifier, range) ==
  BtlNode("Identifier", identifier, NoScript, 0, <<>>, <<>>, "", range)

BtlPush(script, range) ==
  BtlNode("Push", <<>>, script, 0, <<>>, <<>>, "", range)

BtlEvaluation(script, range) ==
  BtlNode("Evaluation", <<>>, script, 0, <<>>, <<>>, "", range)

BtlBigIntLiteral(number, range) ==
  BtlNode("BigIntLiteral", <<>>, NoScript, number, <<>>, <<>>, "", range)

BtlHexLiteral(hex, range) ==
  BtlNode("HexLiteral", <<>>, NoScript, 0, hex, <<>>, "", range)

BtlUTF8Literal(utf8, range) ==
  BtlNode("UTF8Literal", <<>>, NoScript, 0, <<>>, utf8, "", range)

BtlComment(text, range) ==
  BtlNode("Comment", <<>>, NoScript, 0, <<>>, <<>>, text, range)

\* lines 21-26
pluckRange(node) ==
  Range(node.range.startLineNumber, node.range.startColumn,
        node.range.endLineNumber, node.range.endColumn)

\* two hexadecimal digits a byte
hexToBin(hex) ==
  [i \in 1..(Len(hex) \div 2) |-> 16 * hex[2 * i - 1] + hex[2 * i]]

RECURSIVE utf8ToBin(_)
utf8ToBin(utf8) ==
  IF Len(utf8) = 0 THEN <<>>
  ELSE (IF Head(utf8) < 128 THEN << Head(utf8) >>
        ELSE << 192 + (Head(utf8) \div 64), 128 + (Head(utf8) % 64) >>)
       \o utf8ToBin(Tail(utf8))

NoProperties ==
  [opcode |-> None, variable |-> None, script |-> None, source |-> Absent,
   literalType |-> None]

Resolved(segment, properties) ==
  [type |-> segment.type, value |-> segment.value, script |-> segment.script,
   text |-> segment.text, range |-> segment.range,
   properties |-> properties]

Traced(value, invoked, cycles, compilations) ==
  [value |-> value, invoked |-> invoked, cycles |-> cycles,
   compilations |-> compilations]

\* an IdentifierResolutionFunction's return value, lines 101-130
Resolution(status, type, bytecode, source, error, scriptId) ==
  [status |-> status, type |-> type, bytecode |-> bytecode,
   source |-> source, error |-> error, scriptId |-> scriptId]

\* a compilation result
Compilation(success, bytecode, errors, resolve) ==
  [success |-> success, bytecode |-> bytecode, errors |-> errors,
   resolve |-> resolve]

\* what resolveScriptIdentifier returns when the script compiled
Compiled(compilation) ==
  [kind |-> "success", bytecode |-> compilation.bytecode, text |-> "",
   resolve |-> compilation.resolve]

NotCompiled(returned) ==
  [kind |-> returned.kind, bytecode |-> <<>>, text |-> returned.text,
   resolve |-> <<>>]

RECURSIVE JoinWith(_, _, _)
\* texts.slice(i - 1).join(separator)
JoinWith(texts, i, separator) ==
  IF i > Len(texts) THEN ""
  ELSE IF i = Len(texts) THEN texts[i]
  ELSE texts[i] \o separator \o JoinWith(texts, i + 1, separator)

\* lines 432-438
describeError(err) ==
  err.error \o " [" \o ToString(err.range.startLineNumber) \o ", "
    \o ToString(err.range.startColumn) \o "]"

RECURSIVE compileScript(_, _)
RECURSIVE resolveScriptSegment(_, _, _)

\* lines 430-438: the outcome of the nested compilation
scriptResult(identifier, nested) ==
  IF nested.value.success
    THEN Traced(Compiled(nested.value), nested.invoked, nested.cycles,
    nested.compilations)
  ELSE Traced(NotCompiled(String(
         "Compilation error in resolved script, \"" \o Join(identifier)
         \o "\": "
         \o JoinWith([i \in 1..Len(nested.value.errors) |->
                        describeError(nested.value.errors[i])], 1, ", "))),
         nested.invoked, nested.cycles,
    nested.compilations)

Includes(list, element) == \E i \in 1..Len(list) : list[i] = element

\* mutant: the identifier, not the script which refers to it, is looked for
\* among the scripts being compiled
resolveScriptIdentifierEarly(environment, identifier, parentIdentifier) ==
  IF Join(identifier) \notin DOMAIN environment.scripts
    THEN Traced(NotCompiled(False), <<>>, <<>>, <<>>)
  ELSE IF /\ parentIdentifier.defined
          /\ environment.sourceScriptIds.defined
          /\ Includes(environment.sourceScriptIds.list, Join(identifier))
    THEN Traced(NotCompiled(String(
           "A circular dependency was encountered. Script \""
           \o Join(identifier)
           \o "\" relies on itself to be generated. (Parent scripts: "
           \o JoinWith(environment.sourceScriptIds.list, 1, ", ") \o ")")),
           <<>>,
           << [identifier |-> Join(identifier),
               sourceScriptIds |-> environment.sourceScriptIds.list] >>,
           <<>>)
  ELSE scriptResult(identifier,
         compileScript(Join(identifier),
           [environment EXCEPT !.sourceScriptIds =
              Present((IF environment.sourceScriptIds.defined
                         THEN environment.sourceScriptIds.list ELSE <<>>)
                      \o (IF parentIdentifier.defined
                            THEN << parentIdentifier.value >> ELSE <<>>))]))

\* mutant: the script compiled, not the script which refers to it, is added
\* to the scripts being compiled
resolveScriptIdentifierListingItself(environment, identifier, parentIdentifier) ==
  IF Join(identifier) \notin DOMAIN environment.scripts
    THEN Traced(NotCompiled(False), <<>>, <<>>, <<>>)
  ELSE IF /\ parentIdentifier.defined
          /\ environment.sourceScriptIds.defined
          /\ Includes(environment.sourceScriptIds.list,
                      parentIdentifier.value)
    THEN Traced(NotCompiled(String(
           "A circular dependency was encountered. Script \""
           \o Join(identifier)
           \o "\" relies on itself to be generated. (Parent scripts: "
           \o JoinWith(environment.sourceScriptIds.list, 1, ", ") \o ")")),
           <<>>,
           << [identifier |-> Join(identifier),
               sourceScriptIds |-> environment.sourceScriptIds.list] >>,
           <<>>)
  ELSE scriptResult(identifier,
         compileScript(Join(identifier),
           [environment EXCEPT !.sourceScriptIds =
              Present((IF environment.sourceScriptIds.defined
                         THEN environment.sourceScriptIds.list ELSE <<>>)
                      \o << Join(identifier) >>)]))

\* lines 398-439
resolveScriptIdentifier(environment, identifier, parentIdentifier) ==
  IF Join(identifier) \notin DOMAIN environment.scripts
    THEN Traced(NotCompiled(False), <<>>, <<>>, <<>>)
  ELSE IF /\ parentIdentifier.defined
          /\ environment.sourceScriptIds.defined
          /\ Includes(environment.sourceScriptIds.list,
                      parentIdentifier.value)
    THEN Traced(NotCompiled(String(
           "A circular dependency was encountered. Script \""
           \o Join(identifier)
           \o "\" relies on itself to be generated. (Parent scripts: "
           \o JoinWith(environment.sourceScriptIds.list, 1, ", ") \o ")")),
           <<>>,
           << [identifier |-> Join(identifier),
               sourceScriptIds |-> environment.sourceScriptIds.list] >>,
           <<>>)
  ELSE scriptResult(identifier,
         compileScript(Join(identifier),
           [environment EXCEPT !.sourceScriptIds =
              Present((IF environment.sourceScriptIds.defined
                         THEN environment.sourceScriptIds.list ELSE <<>>)
                      \o (IF parentIdentifier.defined
                            THEN << parentIdentifier.value >> ELSE <<>>))]))

\* lines 489-510
scriptResolution(identifier, scriptResult_) ==
  IF scriptResult_.value.kind = "false"
    THEN Traced(Resolution(FALSE, "unknown", <<>>, Absent,
                  "Unknown identifier '" \o Join(identifier) \o "'.", None),
                scriptResult_.invoked, scriptResult_.cycles,
    scriptResult_.compilations)
  ELSE IF scriptResult_.value.kind = "string"
    THEN Traced(Resolution(FALSE, "script", <<>>, Absent,
                  scriptResult_.value.text, Some(Join(identifier))),
                scriptResult_.invoked, scriptResult_.cycles,
    scriptResult_.compilations)
  ELSE Traced(Resolution(TRUE, "script", scriptResult_.value.bytecode,
                Present(scriptResult_.value.resolve), "", None),
              scriptResult_.invoked, scriptResult_.cycles,
    scriptResult_.compilations)

\* lines 471-510
variableResolution(scriptId, environment, identifier, variableResult) ==
  IF variableResult.value.kind = "string"
    THEN Traced(Resolution(FALSE, "variable", <<>>, Absent,
                  variableResult.value.text, None),
                variableResult.invoked, <<>>, <<>>)
  ELSE IF variableResult.value.kind = "bytes"
    THEN Traced(Resolution(TRUE, "variable", variableResult.value.bytecode,
                  Absent, "", None),
                variableResult.invoked, <<>>, <<>>)
  ELSE scriptResolution(identifier,
         resolveScriptIdentifier(environment, identifier, scriptId))

\* mutant: scripts are looked up before variables
createIdentifierResolverScriptFirst(scriptId, environment, identifier) ==
  IF Join(identifier) \in DOMAIN environment.opcodes
    THEN Traced(Resolution(TRUE, "opcode",
                  environment.opcodes[Join(identifier)], Absent, "", None),
                <<>>, <<>>, <<>>)
  ELSE IF Join(identifier) \in DOMAIN environment.scripts
    THEN scriptResolution(identifier,
           resolveScriptIdentifier(environment, identifier, scriptId))
  ELSE variableResolution(scriptId, environment, identifier,
         resolveVariableIdentifier(environment, identifier))

\* lines 451-515: the function returned, applied to an identifier
createIdentifierResolver(scriptId, environment, identifier) ==
  IF Join(identifier) \in DOMAIN environment.opcodes
    THEN Traced(Resolution(TRUE, "opcode",
                  environment.opcodes[Join(identifier)], Absent, "", None),
                <<>>, <<>>, <<>>)
  ELSE variableResolution(scriptId, environment, identifier,
         resolveVariableIdentifier(environment, identifier))

\* mutant: the bytecode segment of an identifier names no opcode, variable
\* or script
identifierSegmentUntagged(range, identifier, resolution) ==
  IF resolution.value.status
    THEN Traced(Resolved(BytecodeSegment(resolution.value.bytecode, range),
                         NoProperties),
                resolution.invoked, resolution.cycles,
    resolution.compilations)
  ELSE Traced(Resolved(ErrorSegment(resolution.value.error, range),
                       NoProperties),
              resolution.invoked, resolution.cycles,
    resolution.compilations)

\* lines 149-173
identifierSegment(range, identifier, resolution) ==
  IF resolution.value.status
    THEN Traced(
           Resolved(BytecodeSegment(resolution.value.bytecode, range),
             IF resolution.value.type = "opcode"
               THEN [NoProperties EXCEPT !.opcode = Some(Join(identifier))]
             ELSE IF resolution.value.type = "variable"
               THEN [NoProperties EXCEPT !.variable = Some(Join(identifier))]
             ELSE [NoProperties EXCEPT !.script = Some(Join(identifier)),
                                       !.source = resolution.value.source]),
           resolution.invoked, resolution.cycles,
    resolution.compilations)
  ELSE Traced(Resolved(ErrorSegment(resolution.value.error, range), NoProperties),
              resolution.invoked, resolution.cycles,
    resolution.compilations)

\* lines 175-186: a Push or an Evaluation around its resolved script
containerSegment(segment, value) ==
  Traced(Resolved([segment EXCEPT !.script = value.value], NoProperties),
         value.invoked, value.cycles,
    value.compilations)

\* lines 145-220: the callback of segment.value.map
resolveChild(child, scriptId, environment) ==
  CASE child.name = "Identifier" ->
         identifierSegment(pluckRange(child), child.identifier,
           createIdentifierResolver(scriptId, environment, child.identifier))
    [] child.name = "Push" ->
         containerSegment(PushSegment(<<>>, pluckRange(child)),
           resolveScriptSegment(child.script, scriptId, environment))
    [] child.name = "Evaluation" ->
         containerSegment(EvaluationSegment(<<>>, pluckRange(child)),
           resolveScriptSegment(child.script, scriptId, environment))
    [] child.name = "BigIntLiteral" ->
         Traced(Resolved(
           BytecodeSegment(bigIntToScriptNumber(child.number),
                           pluckRange(child)),
           [NoProperties EXCEPT !.literalType = Some("BigIntLiteral")]),
           <<>>, <<>>, <<>>)
    [] child.name = "HexLiteral" ->
         Traced(Resolved(
           BytecodeSegment(hexToBin(child.hex), pluckRange(child)),
           [NoProperties EXCEPT !.literalType = Some("HexLiteral")]),
           <<>>, <<>>, <<>>)
    [] child.name = "UTF8Literal" ->
         Traced(Resolved(
           BytecodeSegment(utf8ToBin(child.utf8), pluckRange(child)),
           [NoProperties EXCEPT !.literalType = Some("UTF8Literal")]),
           <<>>, <<>>, <<>>)
    [] child.name = "Comment" ->
         Traced(Resolved(CommentSegment(child.text, pluckRange(child)),
                         NoProperties), <<>>, <<>>, <<>>)
    [] OTHER ->
         Traced(Resolved(
           ErrorSegment("Unrecognized segment: " \o child.name,
                        pluckRange(child)), NoProperties), <<>>, <<>>, <<>>)

\* the segments mapped so far with the segment of one more child
withChild(resolved, child) ==
  Traced(Append(resolved.value, child.value),
         resolved.invoked \o child.invoked,
         resolved.cycles \o child.cycles,
         resolved.compilations \o child.compilations)

\* segment.value.map, from child i on
RECURSIVE resolveChildren(_, _, _, _, _)
resolveChildren(children, i, scriptId, environment, resolved) ==
  IF i > Len(children) THEN resolved
  ELSE resolveChildren(children, i + 1, scriptId, environment,
         withChild(resolved,
                   resolveChild(children[i], scriptId, environment)))

\* mutant: a segment without children resolves to an empty script
resolveScriptSegmentBare(segment, scriptId, environment) ==
  resolveChildren(segment.children, 1, scriptId, environment,
                  Traced(<<>>, <<>>, <<>>, <<>>))

\* lines 222-226
emptyToComment(segment, resolved) ==
  IF Len(resolved.value) = 0
    THEN Traced(<< Resolved(CommentSegment("", pluckRange(segment)),
                            NoProperties) >>,
                resolved.invoked, resolved.cycles,
    resolved.compilations)
  ELSE resolved

\* lines 139-226
resolveScriptSegment(segment, scriptId, environment) ==
  emptyToComment(segment,
    resolveChildren(segment.children, 1, scriptId, environment,
                    Traced(<<>>, <<>>, <<>>, <<>>)))

\* the compiler's machine: a vm and a state factory
CompilerMachine == [vm |-> TRUE, createState |-> TRUE]

compilationOf(resolved, reduced) ==
  Traced(Compilation(~reduced.errors.defined, reduced.bytecode,
                     reduced.errors.list, resolved.value),
         resolved.invoked, resolved.cycles,
    resolved.compilations)

compileResolved(resolved) ==
  compilationOf(resolved, reduceScript(resolved.value, CompilerMachine))

\* the call compileScript(scriptId, data, environment) before the calls
\* made inside it
entered(scriptId, environment, compilation) ==
  [compilation EXCEPT !.compilations =
     << [scriptId |-> scriptId,
         sourceScriptIds |-> environment.sourceScriptIds] >> \o @]

\* compileScript(scriptId, data, environment): the script is parsed, then
\* resolved with the resolver of its own id, then reduced
compileScript(scriptId, environment) ==
  entered(scriptId, environment,
    compileResolved(
      resolveScriptSegment(environment.scripts[scriptId], Some(scriptId),
                           environment)))

NoEnvironment ==
  [opcodes |-> <<>>, variables |-> <<>>, operations |-> <<>>,
   scripts |-> <<>>, sourceScriptIds |-> Absent]

NoResolution == Resolution(FALSE, "", <<>>, Absent, "", None)

NoCompilation == Compilation(FALSE, <<>>, <<>>, <<>>)

\* nothing has been returned by the resolver
NothingReturned ==
  /\ variableReturned = Returned_(False, <<>>)
  /\ resolutionReturned = Traced(NoResolution, <<>>, <<>>, <<>>)
  /\ scriptReturned = Traced(<<>>, <<>>, <<>>, <<>>)
  /\ compilationReturned = Traced(NoCompilation, <<>>, <<>>, <<>>)

\* the resolver is not being called
ResolveIdle ==
  /\ givenEnvironment = NoEnvironment
  /\ givenScriptId = None
  /\ givenIdentifier = <<>>
  /\ givenSegment = NoScript
  /\ NothingReturned

\* resolveVariableIdentifier({ data, environment, identifier })
ResolveVariableIdentifier ==
  /\ pc = "resolveVariable"
  /\ variableReturned' =
       resolveVariableIdentifier(givenEnvironment, givenIdentifier)
  /\ pc' = "resolvedVariable"
  /\ UNCHANGED <<outsideResolve, resolveGiven, resolutionReturned,
                 scriptReturned, compilationReturned>>

\* createIdentifierResolver({ data, environment, scriptId })(identifier)
ResolveIdentifier ==
  /\ pc = "resolveIdentifier"
  /\ resolutionReturned' =
       createIdentifierResolver(givenScriptId, givenEnvironment,
                                givenIdentifier)
  /\ pc' = "resolvedIdentifier"
  /\ UNCHANGED <<outsideResolve, resolveGiven, variableReturned,
                 scriptReturned, compilationReturned>>

\* resolveScriptSegment(segment, createIdentifierResolver({ ... }))
ResolveScriptSegment ==
  /\ pc = "resolveSegment"
  /\ scriptReturned' =
       resolveScriptSegment(givenSegment, givenScriptId, givenEnvironment)
  /\ pc' = "resolvedSegment"
  /\ UNCHANGED <<outsideResolve, resolveGiven, variableReturned,
                 resolutionReturned, compilationReturned>>

\* compileScript(scriptId, data, environment)
CompileScript ==
  /\ pc = "compile"
  /\ compilationReturned' = compileScript(givenScriptId.value, givenEnvironment)
  /\ pc' = "compiled"
  /\ UNCHANGED <<outsideResolve, resolveGiven, variableReturned,
                 resolutionReturned, scriptReturned>>

(***************************************************************************)
(* bech32.ts: isBech32.  A string is the sequence of its characters; an    *)
(* index beyond the string reads `undefined`, as does the index of a       *)
(* character which is no key of bech32CharacterSetIndex.                   *)
(***************************************************************************)
bech32CharacterSet ==
  << "q", "p", "z", "r", "y", "9", "x", "8", "g", "f", "2", "t", "v", "d",
     "w", "0", "s", "3", "j", "n", "5", "4", "k", "h", "c", "e", "6", "m",
     "u", "a", "7", "l" >>

Undefined == [defined |-> FALSE, value |-> 0]

Defined(value) == [defined |-> TRUE, value |-> value]

\* bech32CharacterSetIndex[character], line 11
bech32CharacterSetIndex(character) ==
  IF \E i \in 1..Len(bech32CharacterSet) : bech32CharacterSet[i] = character
    THEN Defined((CHOOSE i \in 1..Len(bech32CharacterSet) :
                    bech32CharacterSet[i] = character) - 1)
  ELSE Undefined

\* text[index], the index counted from 0; the key "undefined" when beyond
characterAt(text, index) ==
  IF index < Len(text) THEN text[index + 1] ELSE "undefined"

\* Number(value) as the operand of `&`: NaN is converted to 0
toInt32(value) == IF value.defined THEN value.value ELSE 0

RECURSIVE shiftLeft(_, _)
\* value << count
shiftLeft(value, count) ==
  IF count = 0 THEN value ELSE shiftLeft(2 * value, count - 1)

\* value & mask, for a mask (1 << n) - 1
bitAndMask(value, mask) == value % (mask + 1)

\* !nonBech32Characters.test(text), line 117
onlyBech32Characters(text) ==
  \A i \in 1..Len(text) : bech32CharacterSetIndex(text[i]).defined

base32WordLength == 5

base256WordLength == 8

\* lines 132-136
last5Bits(maybeBech32) ==
  bech32CharacterSetIndex(characterAt(maybeBech32, Len(maybeBech32)))

\* lines 130-131
expectedPadding(maybeBech32) ==
  (Len(maybeBech32) * base32WordLength) % base256WordLength

\* lines 129-146
isBech32(maybeBech32) ==
  /\ onlyBech32Characters(maybeBech32)
  /\ expectedPadding(maybeBech32) < base32WordLength
  /\ bitAndMask(toInt32(last5Bits(maybeBech32)),
                shiftLeft(1, expectedPadding(maybeBech32)) - 1) = 0

\* bech32PaddedToBin and binToBech32Padded are not being called
PaddedIdle ==
  /\ bytesGiven = <<>>
  /\ paddedGiven = <<>>
  /\ binReturned = False
  /\ paddedReturned = <<>>

\* isBech32 is not being called
Bech32Idle ==
  /\ bech32Given = <<>>
  /\ bech32Returned = FALSE
  /\ PaddedIdle

\* isBech32(maybeBech32)
IsBech32 ==
  /\ pc = "isBech32"
  /\ bech32Returned' = isBech32(bech32Given)
  /\ pc' = "testedBech32"
  /\ UNCHANGED <<outsideBech32, bech32Given, bytesGiven, paddedGiven,
                 binReturned, paddedReturned>>

(***************************************************************************)
(* bech32.ts: regroupBits, encodeBech32, decodeBech32, bech32PaddedToBin   *)
(* and binToBech32Padded.  The operands of `<<`, `>>`, `|` and `&` are     *)
(* 32-bit integers: `accumulator` is the function from the bit positions   *)
(* 0..31 to the bits, position 31 being the sign.  What regroupBits        *)
(* returns is [kind, bytecode, text]: the array of numbers ("array") or an *)
(* error string ("string").                                                *)
(***************************************************************************)
integerOutOfRange ==
  "An integer provided in the source array is out of the range of the specified source word length."

hasDisallowedPadding == "Encountered padding when padding was disallowed."

requiresDisallowedPadding ==
  "Encoding requires padding while padding is disallowed."

notBech32Padded ==
  "Bech32 decoding error: input is not in Bech32 padded format."

Numbers(list) == [kind |-> "array", bytecode |-> list, text |-> ""]

\* the 32-bit integer of a number from 0 to 2^31 - 1
int32(number) ==
  [k \in 0..31 |-> IF k = 31 THEN 0 ELSE (number \div (2 ^ k)) % 2]

\* a << n
shiftLeft32(a, n) == [k \in 0..31 |-> IF k >= n THEN a[k - n] ELSE 0]

\* a >> n, which propagates the sign
shiftRight32(a, n) == [k \in 0..31 |-> IF k + n <= 31 THEN a[k + n] ELSE a[31]]

\* a | b
or32(a, b) == [k \in 0..31 |-> IF a[k] = 1 \/ b[k] = 1 THEN 1 ELSE 0]

\* a & ((1 << n) - 1), as a number, for n < 31
RECURSIVE andMask32(_, _)
andMask32(a, n) ==
  IF n = 0 THEN 0 ELSE a[n - 1] * (2 ^ (n - 1)) + andMask32(a, n - 1)

\* mutant: the bits left after the loop are not padded into a last word
regroupEndUnpadded(accumulator, bits, regrouped, sourceWordLength, resultWordLength, padding) ==
  IF padding THEN Numbers(regrouped)
  ELSE IF bits >= sourceWordLength THEN String(hasDisallowedPadding)
  ELSE IF andMask32(shiftLeft32(accumulator, resultWordLength - bits),
                    resultWordLength) > 0
    THEN String(requiresDisallowedPadding)
  ELSE Numbers(regrouped)

\* lines 61-71: after the loop
regroupEnd(accumulator, bits, regrouped, sourceWordLength, resultWordLength, padding) ==
  IF padding
    THEN Numbers(
           IF bits > 0
             THEN Append(regrouped,
                    andMask32(shiftLeft32(accumulator, resultWordLength - bits),
                              resultWordLength))
           ELSE regrouped)
  ELSE IF bits >= sourceWordLength THEN String(hasDisallowedPadding)
  ELSE IF andMask32(shiftLeft32(accumulator, resultWordLength - bits),
                    resultWordLength) > 0
    THEN String(requiresDisallowedPadding)
  ELSE Numbers(regrouped)

RECURSIVE regroupFrom(_, _, _, _, _, _, _, _)

\* lines 54-58: the while loop
RECURSIVE regroupWhile(_, _, _, _, _, _, _, _)
regroupWhile(bin, p, accumulator, bits, regrouped, sourceWordLength, resultWordLength, padding) ==
  IF bits >= resultWordLength
    THEN regroupWhile(bin, p, accumulator, bits - resultWordLength,
           Append(regrouped,
             andMask32(shiftRight32(accumulator, bits - resultWordLength),
                       resultWordLength)),
           sourceWordLength, resultWordLength, padding)
  ELSE regroupFrom(bin, p + 1, accumulator, bits, regrouped,
                   sourceWordLength, resultWordLength, padding)

\* lines 46-59: the for loop, from bin[p - 1] on
regroupFrom(bin, p, accumulator, bits, regrouped, sourceWordLength, resultWordLength, padding) ==
  IF p > Len(bin)
    THEN regroupEnd(accumulator, bits, regrouped, sourceWordLength,
                    resultWordLength, padding)
  ELSE IF bin[p] < 0 \/ bin[p] \div (2 ^ sourceWordLength) # 0
    THEN String(integerOutOfRange)
  ELSE regroupWhile(bin, p,
         or32(shiftLeft32(accumulator, sourceWordLength), int32(bin[p])),
         bits + sourceWordLength, regrouped, sourceWordLength,
         resultWordLength, padding)

\* lines 35-72
regroupBits(bin, sourceWordLength, resultWordLength, padding) ==
  regroupFrom(bin, 1, int32(0), 0, <<>>, sourceWordLength, resultWordLength,
              padding)

\* lines 83-92: a number which is no index of the character set appends
\* "undefined"
encodeBech32(base32IntegerArray) ==
  [i \in 1..Len(base32IntegerArray) |->
     IF /\ base32IntegerArray[i] >= 0
        /\ base32IntegerArray[i] < Len(bech32CharacterSet)
       THEN bech32CharacterSet[base32IntegerArray[i] + 1]
     ELSE "undefined"]

\* lines 103-115
decodeBech32(validBech32) ==
  [i \in 1..Len(validBech32) |-> bech32CharacterSetIndex(validBech32[i])]

\* an array as regroupBits reads it: `undefined < 0` is false and
\* `undefined >> n` and `a | undefined` take undefined as 0
asIntegers(array) == [i \in 1..Len(array) |-> toInt32(array[i])]

\* Uint8Array.from(array)
uint8ArrayFrom(array) == [i \in 1..Len(array) |-> array[i] % 256]

\* line 171
binOrError(regrouped) ==
  IF regrouped.kind = "string" THEN regrouped
  ELSE Bytes(uint8ArrayFrom(regrouped.bytecode))

\* mutant: the words are regrouped with padding allowed
bech32PaddedToBinPadding(bech32Padded) ==
  binOrError(
    IF isBech32(bech32Padded)
      THEN regroupBits(asIntegers(decodeBech32(bech32Padded)),
                       base32WordLength, base256WordLength, TRUE)
    ELSE String(notBech32Padded))

\* lines 162-172
bech32PaddedToBin(bech32Padded) ==
  binOrError(
    IF isBech32(bech32Padded)
      THEN regroupBits(asIntegers(decodeBech32(bech32Padded)),
                       base32WordLength, base256WordLength, FALSE)
    ELSE String(notBech32Padded))

\* lines 182-185: regroupBits does not return a string here, its input being
\* a Uint8Array
binToBech32Padded(bytes) ==
  encodeBech32(
    regroupBits(bytes, base256WordLength, base32WordLength, TRUE).bytecode)

\* binToBech32Padded(bytesGiven)
BinToBech32Padded ==
  /\ pc = "binToBech32Padded"
  /\ paddedReturned' = binToBech32Padded(bytesGiven)
  /\ pc' = "encoded"
  /\ UNCHANGED <<outsideBech32, bech32Given, bech32Returned, bytesGiven,
                 paddedGiven, binReturned>>

\* bech32PaddedToBin(binToBech32Padded(bytesGiven))
Bech32PaddedToBinOfEncoded ==
  /\ pc = "encoded"
  /\ binReturned' = bech32PaddedToBin(paddedReturned)
  /\ pc' = "decodedBack"
  /\ UNCHANGED <<outsideBech32, bech32Given, bech32Returned, bytesGiven,
                 paddedGiven, paddedReturned>>

\* bech32PaddedToBin(paddedGiven)
Bech32PaddedToBin ==
  /\ pc = "bech32PaddedToBin"
  /\ binReturned' = bech32PaddedToBin(paddedGiven)
  /\ pc' = "decoded"
  /\ UNCHANGED <<outsideBech32, bech32Given, bech32Returned, bytesGiven,
                 paddedGiven, paddedReturned>>

\* binToBech32Padded(bech32PaddedToBin(paddedGiven)), when bytes were
\* returned
BinToBech32PaddedOfDecoded ==
  /\ pc = "decoded"
  /\ binReturned.kind = "bytes"
  /\ paddedReturned' = binToBech32Padded(binReturned.bytecode)
  /\ pc' = "encodedBack"
  /\ UNCHANGED <<outsideBech32, bech32Given, bech32Returned, bytesGiven,
                 paddedGiven, binReturned>>

(***************************************************************************)
(* hashes.ts: the wrappers hash, init, update and final which              *)
(* instantiateRustWasm returns, statement by statement.  The WebAssembly   *)
(* module is not part of the source: its linear memory is                  *)
(* [buffer, blocks, ret], the number of times the memory has grown (each   *)
(* growth replaces wasm.memory.buffer and detaches the views of the old    *)
(* one), the bytes of each allocated region by its pointer, and the        *)
(* pointer and length the last export wrote at retPtr.  A Uint8Array is    *)
(* [kind, buffer, ptr, bytes]: a view of a region of a buffer ("view") or  *)
(* an array with bytes of its own ("copy").                                *)
(***************************************************************************)
Pointers == 1..MaxPointers

View(buffer, ptr) == [kind |-> "view", buffer |-> buffer, ptr |-> ptr, bytes |-> <<>>]

Copy(bytes) == [kind |-> "copy", buffer |-> 0, ptr |-> 0, bytes |-> bytes]

NoArray == [kind |-> "none", buffer |-> 0, ptr |-> 0, bytes |-> <<>>]

Exception == [kind |-> "thrown", buffer |-> 0, ptr |-> 0, bytes |-> <<>>]

Event(name, ptr, allocated) == [event |-> name, ptr |-> ptr, allocated |-> allocated]

\* the bytes an export returns for its arguments: any deterministic map
exported(operationName, arrays) ==
  << Len(operationName), Len(flattenBinArray(arrays)),
     checksum(flattenBinArray(arrays), 1) >>

\* the region at ptr with its bytes, the memory having grown or not
allocate(memory, ptr, bytes, grown) ==
  [memory EXCEPT !.buffer = @ + grown, !.blocks = (ptr :> bytes) @@ @]

\* wasm.__wbindgen_free(ptr, len)
release(memory, ptr) ==
  [memory EXCEPT !.blocks = [p \in (DOMAIN @) \ {ptr} |-> @[p]]]

\* getUint8Memory().subarray(ptr, ptr + len), lines 62-70 and 88-89: the
\* cached view is replaced when wasm.memory.buffer has changed
getArrayU8FromWasm(memory, ptr) == View(memory.buffer, ptr)

\* the bytes seen through a view: none when its buffer is detached
bytesThrough(memory, array) ==
  IF array.buffer = memory.buffer /\ array.ptr \in DOMAIN memory.blocks
    THEN memory.blocks[array.ptr]
  ELSE <<>>

\* mutant: the view itself is kept
sliceView(memory, array) == array

\* Uint8Array.prototype.slice(): a new array with the bytes of the view
slice(memory, array) == Copy(bytesThrough(memory, array))

\* no wrapper is being called
WasmIdle ==
  /\ wasmCall = [operation |-> "", given |-> <<>>, arrays |-> <<>>]
  /\ wasmMemory = [buffer |-> 0, blocks |-> <<>>, ret |-> 0]
  /\ wasmLocals = [pointers |-> <<>>, ptr |-> 0, realRet |-> NoArray,
                   thrown |-> FALSE, freed |-> 0]
  /\ wasmLog = <<>>
  /\ wasmReturned = NoArray

\* passArray8ToWasm, lines 82-86, of the next argument: __wbindgen_malloc
\* returns a region which is not allocated and may grow the memory
PassArray8ToWasm ==
  /\ pc = "passArrays"
  /\ Len(wasmLocals.pointers) < Len(wasmCall.arrays)
  /\ \E ptr \in Pointers \ DOMAIN wasmMemory.blocks :
       \E grown \in 0..(IF wasmMemory.buffer < MaxGrowths THEN 1 ELSE 0) :
         /\ wasmMemory' =
              allocate(wasmMemory, ptr,
                       wasmCall.arrays[Len(wasmLocals.pointers) + 1], grown)
         /\ wasmLocals' = [wasmLocals EXCEPT !.pointers = Append(@, ptr)]
         /\ wasmLog' = Append(wasmLog, Event("malloc", ptr, TRUE))
  /\ UNCHANGED <<pc, outsideWasm, wasmCall, wasmReturned>>

\* const retPtr = globalArgumentPtr(), once every argument is passed
GlobalArgumentPtr ==
  /\ pc = "passArrays"
  /\ Len(wasmLocals.pointers) = Len(wasmCall.arrays)
  /\ pc' = "export"
  /\ UNCHANGED <<outsideWasm, wasmVars>>

\* the export returns: it has allocated the region of its result, written
\* the result there and its pointer at retPtr, and may have written to the
\* region of rawState and grown the memory
ExportReturns ==
  /\ pc = "export"
  /\ \E ptr \in Pointers \ DOMAIN wasmMemory.blocks :
       \E grown \in 0..(IF wasmMemory.buffer < MaxGrowths THEN 1 ELSE 0) :
         \E written \in BOOLEAN :
           /\ wasmMemory' =
                [allocate(
                   IF written /\ wasmCall.operation \in {"update", "final"}
                     THEN [wasmMemory EXCEPT
                             !.blocks[wasmLocals.pointers[1]] =
                               [i \in 1..Len(@) |-> 255 - @[i]]]
                   ELSE wasmMemory,
                   ptr, exported(wasmCall.operation, wasmCall.arrays), grown)
                 EXCEPT !.ret = ptr]
           /\ wasmLog' = Append(wasmLog, Event("export", ptr, TRUE))
  /\ pc' = "read"
  /\ UNCHANGED <<outsideWasm, wasmCall, wasmLocals, wasmReturned>>

\* mutant: an exception of the export leaves the wrapper at once
ExportThrowsPastFinally ==
  /\ pc = "export"
  /\ wasmLocals' = [wasmLocals EXCEPT !.thrown = TRUE]
  /\ wasmLog' = Append(wasmLog, Event("throw", 0, FALSE))
  /\ pc' = "return"
  /\ UNCHANGED <<outsideWasm, wasmCall, wasmMemory, wasmReturned>>

\* the export throws: `init` has no try statement, the others go to their
\* finally block
ExportThrows ==
  /\ pc = "export"
  /\ wasmLocals' = [wasmLocals EXCEPT !.thrown = TRUE]
  /\ wasmLog' = Append(wasmLog, Event("throw", 0, FALSE))
  /\ pc' = CASE wasmCall.operation = "init" -> "return"
             [] wasmCall.operation = "hash" -> "free"
             [] OTHER -> "finally"
  /\ UNCHANGED <<outsideWasm, wasmCall, wasmMemory, wasmReturned>>

\* const ptr = mem[retPtr / 4] and getArrayU8FromWasm(ptr, len)
GetArrayU8FromWasm ==
  /\ pc = "read"
  /\ wasmLocals' =
       [wasmLocals EXCEPT
          !.ptr = wasmMemory.ret,
          !.realRet = getArrayU8FromWasm(wasmMemory, wasmMemory.ret)]
  /\ wasmLog' = Append(wasmLog, Event("view", wasmMemory.ret, TRUE))
  /\ pc' = "slice"
  /\ UNCHANGED <<outsideWasm, wasmCall, wasmMemory, wasmReturned>>

\* const realRet = getArrayU8FromWasm(ptr, len).slice()
Slice ==
  /\ pc = "slice"
  /\ wasmLocals' =
       [wasmLocals EXCEPT !.realRet = slice(wasmMemory, wasmLocals.realRet)]
  /\ wasmLog' = Append(wasmLog, Event("slice", wasmLocals.ptr, TRUE))
  /\ pc' = "freeResult"
  /\ UNCHANGED <<outsideWasm, wasmCall, wasmMemory, wasmReturned>>

\* wasm.__wbindgen_free(ptr, len), in the try block
FreeResult ==
  /\ pc = "freeResult"
  /\ wasmMemory' = release(wasmMemory, wasmLocals.ptr)
  /\ wasmLog' =
       Append(wasmLog,
              Event("free", wasmLocals.ptr,
                    wasmLocals.ptr \in DOMAIN wasmMemory.blocks))
  /\ pc' = CASE wasmCall.operation = "init" -> "return"
             [] wasmCall.operation = "hash" -> "free"
             [] OTHER -> "finally"
  /\ UNCHANGED <<outsideWasm, wasmCall, wasmLocals, wasmReturned>>

\* rawState.set(getUint8Memory().subarray(ptr0 / 1, ptr0 / 1 + len0)), the
\* first statement of the finally blocks of update and final
SetRawState ==
  /\ pc = "finally"
  /\ wasmCall' =
       [wasmCall EXCEPT
          !.arrays[1] =
            bytesThrough(wasmMemory,
              getArrayU8FromWasm(wasmMemory, wasmLocals.pointers[1]))]
  /\ pc' = "free"
  /\ UNCHANGED <<outsideWasm, wasmMemory, wasmLocals, wasmLog, wasmReturned>>

\* wasm.__wbindgen_free(ptr0, len0) and, in update, then
\* wasm.__wbindgen_free(ptr1, len1), in the finally block
FreeArgument ==
  /\ pc = "free"
  /\ wasmLocals.freed < Len(wasmLocals.pointers)
  /\ wasmMemory' =
       release(wasmMemory, wasmLocals.pointers[wasmLocals.freed + 1])
  /\ wasmLog' =
       Append(wasmLog,
              Event("free", wasmLocals.pointers[wasmLocals.freed + 1],
                    wasmLocals.pointers[wasmLocals.freed + 1]
                      \in DOMAIN wasmMemory.blocks))
  /\ wasmLocals' = [wasmLocals EXCEPT !.freed = @ + 1]
  /\ UNCHANGED <<pc, outsideWasm, wasmCall, wasmReturned>>

\* the end of the finally block
EndFinally ==
  /\ pc = "free"
  /\ wasmLocals.freed = Len(wasmLocals.pointers)
  /\ pc' = "return"
  /\ UNCHANGED <<outsideWasm, wasmVars>>

\* return realRet, or the exception of the export
Return ==
  /\ pc = "return"
  /\ wasmReturned' =
       IF wasmLocals.thrown THEN Exception ELSE wasmLocals.realRet
  /\ pc' = "returned"
  /\ UNCHANGED <<outsideWasm, wasmCall, wasmMemory, wasmLocals, wasmLog>>

\* any later call into the module: a region which is not allocated is
\* written to, and the memory may grow
LaterCall ==
  /\ pc = "returned"
  /\ \E ptr \in Pointers \ DOMAIN wasmMemory.blocks :
       \E grown \in 0..(IF wasmMemory.buffer < MaxGrowths THEN 1 ELSE 0) :
         wasmMemory' = allocate(wasmMemory, ptr, <<0, 0, 0>>, grown)
  /\ pc' = "later"
  /\ UNCHANGED <<outsideWasm, wasmCall, wasmLocals, wasmLog, wasmReturned>>

(***************************************************************************)
(* The programs evaluated: bytecodes enumerated byte by byte, unlocking    *)
(* bytecodes that push chosen stack items, P2SH locking bytecodes, and     *)
(* bytecodes at and beyond the maximum bytecode length.                    *)
(***************************************************************************)
RawSeqs(alphabet, n) == UNION {[1..k -> alphabet] : k \in 0..n}

UnlockingAlphabet == {OP_PUSHBYTES_1, OP_RESERVED, OP_16 - 1, OP_16, OP_NOP}

LockingAlphabet == {OP_PUSHBYTES_1, OP_1, OP_IF, OP_DROP, OP_EQUAL}

\* a stack item shaped like a SegWit program: version byte, length byte, body
WitnessLike(first, second, total) == <<first, second>> \o Zeros(total - 2)

WitnessLikeItems ==
  { WitnessLike(first, shape[2], shape[1]) :
      first \in {OP_0, OP_RESERVED, OP_1, OP_16, OP_NOP},
      shape \in {<<3, 1>>, <<4, 2>>, <<4, 3>>, <<42, 40>>, <<43, 41>>} }

\* redeem scripts: accepted, rejected, leaving two items, leaving an open
\* conditional, consuming the remaining stack, failing, and malformed ones
RedeemScripts ==
  { <<OP_1>>, <<OP_NOP>>, <<OP_1, OP_1>>, <<OP_1, OP_1, OP_IF>>,
    <<OP_VERIFY, OP_1>>, <<OP_DROP>>, <<OP_RETURN>>, <<OP_1NEGATE>>,
    <<OP_PUSHBYTES_1, 128>>, <<2, 1>>, <<OP_PUSHDATA_1>>, <<OP_0, OP_0>> }

TopItems == RedeemScripts \cup WitnessLikeItems

ExtraPushes == RawSeqs({OP_1}, MaxExtraPushes)

\* a single PUSHDATA2 instruction of `total` bytes declaring `declared` bytes
LongPush(total, declared) ==
  <<OP_PUSHDATA_2, declared % 256, declared \div 256>> \o Zeros(total - 3)

RECURSIVE Repeat(_, _)
Repeat(k, bytes) == IF k = 0 THEN <<>> ELSE bytes \o Repeat(k - 1, bytes)

\* exactly maximumBytecodeLength bytes, every push within maximumPushSize
LongValid ==
  Repeat(19, LongPush(3 + maximumPushSize, maximumPushSize))
    \o <<62>> \o Zeros(61) \o <<OP_1>>

LongBytecodes ==
  { LongPush(maximumBytecodeLength, maximumBytecodeLength - 3),
    LongPush(maximumBytecodeLength + 1, maximumBytecodeLength - 2),
    LongPush(maximumBytecodeLength + 1, maximumBytecodeLength - 1),
    <<OP_NOP>> \o LongPush(maximumBytecodeLength, maximumBytecodeLength - 3),
    LongValid }

UnlockingBytecodes ==
  RawSeqs(UnlockingAlphabet, MaxRawLen)
    \cup { extra \o encodeDataPush(item) :
             extra \in ExtraPushes, item \in TopItems }
    \cup LongBytecodes

payToScriptHash(hash) == <<OP_HASH160, OP_PUSHBYTES_20>> \o hash \o <<OP_EQUAL>>

\* the item the unlocking bytecode leaves on top of the stack, were it to run
topItemOf(unlockingBytecode) ==
  LET instructions == parseBytecode(unlockingBytecode)
  IN IF Len(instructions) = 0 THEN <<>> ELSE Last(instructions).data

LockingBytecodes(unlockingBytecode) ==
  RawSeqs(LockingAlphabet, MaxRawLen)
    \cup { payToScriptHash(hash160(item)) :
             item \in IF Len(topItemOf(unlockingBytecode)) > maximumPushSize
                        THEN {}
                      ELSE {topItemOf(unlockingBytecode)} }
    \cup { payToScriptHash(Zeros(20)),
           payToScriptHash(Zeros(19)),
           payToScriptHash(Zeros(20)) \o <<OP_NOP>>,
           <<OP_HASH160, OP_PUSHBYTES_20>> \o Zeros(20) \o <<OP_EQUALVERIFY>>,
           <<OP_HASH160, OP_PUSHBYTES_20 - 1>> \o Zeros(19) \o <<OP_EQUAL>>,
           <<OP_DUP, OP_PUSHBYTES_20>> \o Zeros(20) \o <<OP_EQUAL>> }
    \cup LongBytecodes

Contexts == {"input0", "input1"}

Program(unlockingBytecode, lockingBytecode, context) ==
  [ unlockingBytecode |-> unlockingBytecode,
    lockingBytecode |-> lockingBytecode, context |-> context ]

NoState ==
  [createAuthenticationProgramStateCommon(<<>>, <<>>, "none")
     EXCEPT !.error = "unset"]

\* evaluate is not being called
EvaluateIdle ==
  /\ program = [unlockingBytecode |-> <<>>, lockingBytecode |-> <<>>,
                context |-> "none"]
  /\ unlockingResult = NoState
  /\ lockingResult = NoState
  /\ result = NoState
  /\ calls = <<>>
  /\ verdict = FALSE

InitEvaluate ==
  /\ \E u \in UnlockingBytecodes :
       \E l \in LockingBytecodes(u), c \in Contexts :
         program = Program(u, l, c)
  /\ pc = "start"
  /\ unlockingResult = NoState
  /\ lockingResult = NoState
  /\ result = NoState
  /\ calls = <<>>
  /\ verdict = FALSE
  /\ ReduceIdle
  /\ MergeIdle
  /\ ResolveIdle
  /\ Bech32Idle
  /\ WasmIdle

NextEvaluate ==
  \/ EvaluateUnlocking
  \/ ReturnUnlockingError
  \/ EvaluateLocking
  \/ ReturnLockingResult
  \/ ReturnSegWitRecovery
  \/ EvaluateP2sh
  \/ Verify

SpecEvaluate == InitEvaluate /\ [][NextEvaluate]_vars

(***************************************************************************)
(* Properties of evaluate and verify.                                      *)
(***************************************************************************)
Returned == pc \in {"done", "verified"}

Min(set) == CHOOSE x \in set : \A y \in set : x <= y

PreCheckErrors ==
  << "exceededMaximumBytecodeLengthUnlocking", "malformedUnlockingBytecode",
     "exceededMaximumBytecodeLengthLocking", "malformedLockingBytecode",
     "requiresPushOnly" >>

\* whether the k-th pre-check, taken alone, fails for the program
CheckFails(k, prog) ==
  LET unlocking == parseBytecode(prog.unlockingBytecode)
      locking == parseBytecode(prog.lockingBytecode)
  IN CASE k = 1 -> Len(prog.unlockingBytecode) > 10000
       [] k = 2 -> authenticationInstructionsAreMalformed(unlocking)
       [] k = 3 -> Len(prog.lockingBytecode) > 10000
       [] k = 4 -> authenticationInstructionsAreMalformed(locking)
       [] k = 5 -> \E i \in 1..Len(unlocking) : unlocking[i].opcode >= 96

FailingChecks(prog) == {k \in 1..5 : CheckFails(k, prog)}

\* C1: the pre-checks are applied in the order unlocking length, unlocking
\* malformed, locking length, locking malformed, push-only; the error returned
\* is that of the earliest failing check, no instruction is evaluated, and a
\* bytecode of exactly 10,000 bytes does not fail its length check.
C1_PreChecksInOrder ==
  pc # "start" =>
    LET failing == FailingChecks(program)
    IN /\ failing # {} =>
            /\ unlockingResult.error = PreCheckErrors[Min(failing)]
            /\ calls = <<>>
            /\ Returned => result.error = PreCheckErrors[Min(failing)]
       /\ failing = {} =>
            \A k \in 1..5 : unlockingResult.error # PreCheckErrors[k]
       /\ Len(program.unlockingBytecode) = 10000 =>
            unlockingResult.error # PreCheckErrors[1]
       /\ Len(program.lockingBytecode) = 10000 =>
            unlockingResult.error # PreCheckErrors[3]

C1_Witness ==
  /\ pc = "done"
  /\ FailingChecks(program) = {3, 4, 5}
  /\ result.error = "exceededMaximumBytecodeLengthLocking"

\* the locking bytecode parses to the P2SH pattern
MatchesP2sh(prog) ==
  LET locking == parseBytecode(prog.lockingBytecode)
  IN /\ Len(locking) = 3
     /\ locking[1].opcode = 169
     /\ locking[2].opcode = 20
     /\ locking[3].opcode = 135

\* the top item of the unlocking stack and the stack below it
TopItem == IF unlockingResult.stack = <<>> THEN <<>> ELSE Last(unlockingResult.stack)

BelowTop == IF unlockingResult.stack = <<>> THEN <<>> ELSE Front(unlockingResult.stack)

\* the SegWit-recovery exemption as the specification states it
Exempt ==
  /\ BelowTop = <<>>
  /\ Len(TopItem) >= 4
  /\ Len(TopItem) <= 42
  /\ (TopItem[1] = 0 \/ (TopItem[1] >= 81 /\ TopItem[1] <= 96))
  /\ TopItem[2] + 2 = Len(TopItem)

OnP2shPath ==
  /\ Returned
  /\ unlockingResult.error = NoError
  /\ MatchesP2sh(program)

Evaluated(phase) == \E i \in 1..Len(calls) : calls[i].phase = phase

FreshState(instructions, stack, externalState) ==
  [ instructions |-> instructions, ip |-> 0, stack |-> stack,
    alternateStack |-> <<>>, executionStack |-> <<>>,
    lastCodeSeparator |-> 0 - 1, operationCount |-> 0, error |-> NoError,
    externalState |-> externalState ]

RedeemState ==
  FreshState(parseBytecode(TopItem), BelowTop, program.context)

\* standard evaluation of the redeem script accepts
RedeemAccepts ==
  /\ ~authenticationInstructionsAreMalformed(parseBytecode(TopItem))
  /\ verify(stateEvaluate(RedeemState))

\* C2: for a P2SH locking bytecode, after a successful unlocking phase, the
\* returned state satisfies verify iff the redeem script (the top unlocking
\* stack item) is well formed and its evaluation on the remaining unlocking
\* stack satisfies verify; under the SegWit-recovery exemption the returned
\* state is the locking result.
C2_P2shAcceptsIffRedeemAccepts ==
  OnP2shPath =>
    IF Exempt THEN result = lockingResult
    ELSE /\ verify(result) <=> RedeemAccepts
         /\ pc = "verified" => (verdict <=> RedeemAccepts)

C2_Witness ==
  /\ pc = "verified"
  /\ OnP2shPath
  /\ ~Exempt
  /\ verdict
  /\ BelowTop # <<>>

\* C3: once the length and malformation checks pass, evaluate returns the
\* initial state with requiresPushOnly, without evaluating anything, iff some
\* unlocking instruction has an opcode >= OP_16 (0x60); otherwise the
\* unlocking instructions are evaluated.
C3_PushOnlyThreshold ==
  (pc # "start" /\ FailingChecks(program) \cap {1, 2, 3, 4} = {}) =>
    LET unlocking == parseBytecode(program.unlockingBytecode)
        initial == FreshState(unlocking, <<>>, program.context)
        nonPush == \E i \in 1..Len(unlocking) : unlocking[i].opcode >= 96
        rejected == /\ unlockingResult = [initial EXCEPT !.error = "requiresPushOnly"]
                    /\ calls = <<>>
                    /\ Returned => result = unlockingResult
    IN /\ rejected <=> nonPush
       /\ ~nonPush => /\ calls # <<>>
                      /\ calls[1] = Call("unlocking", initial)
                      /\ unlockingResult = stateEvaluate(initial)

C3_Witness ==
  /\ pc = "done"
  /\ FailingChecks(program) = {5}
  /\ \A i \in 1..Len(program.unlockingBytecode) :
       program.unlockingBytecode[i] <= 96
  /\ result.error = "requiresPushOnly"
  /\ calls = <<>>

\* C4: after an unlocking phase that ended with an error, the unlocking state is
\* what evaluate returns and neither the locking bytecode nor a redeem script
\* is ever evaluated.
C4_NoEvaluationAfterUnlockingError ==
  (pc # "start" /\ unlockingResult.error # NoError) =>
    /\ ~Evaluated("locking")
    /\ ~Evaluated("p2sh")
    /\ lockingResult = NoState
    /\ Returned => result = unlockingResult

C4_Witness ==
  /\ pc = "done"
  /\ unlockingResult.error = "calledReserved"
  /\ Len(calls) = 1
  /\ MatchesP2sh(program)

\* C5: after an unlocking phase without error the locking instructions are
\* evaluated on a fresh state whose stack is the final unlocking stack and
\* whose external state is that of the unlocking evaluation; unless the
\* locking instructions are exactly [OP_HASH160, OP_PUSHBYTES_20, OP_EQUAL]
\* the result of evaluate is that locking result.
C5_LockingRunsOnUnlockingStack ==
  (pc \in {"locked", "done", "verified"} /\ unlockingResult.error = NoError) =>
    /\ Len(calls) >= 2
    /\ calls[2] =
         Call("locking",
              FreshState(parseBytecode(program.lockingBytecode),
                         unlockingResult.stack, calls[1].state.externalState))
    /\ calls[1].state.externalState = program.context
    /\ lockingResult = stateEvaluate(calls[2].state)
    /\ (Returned /\ ~MatchesP2sh(program)) =>
         (result = lockingResult /\ Len(calls) = 2)

C5_Witness ==
  /\ pc = "done"
  /\ unlockingResult.error = NoError
  /\ Len(unlockingResult.stack) = 2
  /\ Len(parseBytecode(program.lockingBytecode)) = 3
  /\ parseBytecode(program.lockingBytecode)[2].opcode = 20
  /\ ~MatchesP2sh(program)
  /\ result = lockingResult
  /\ program.context = "input1"

\* C6: on the P2SH path evaluate returns the locking result unchanged, without
\* evaluating the popped item, exactly when the remaining stack is empty and
\* the popped item has length 4..42, first byte OP_0 or OP_1..OP_16 and second
\* byte + 2 equal to its length.
C6_SegWitRecoveryExactly ==
  OnP2shPath =>
    ((result = lockingResult /\ ~Evaluated("p2sh")) <=> Exempt)

C6_Witness ==
  /\ pc = "done"
  /\ OnP2shPath
  /\ Exempt
  /\ Len(TopItem) = 42
  /\ TopItem[1] = 96
  /\ result = lockingResult

\* C7: on the P2SH path without the exemption, a malformed redeem script makes
\* evaluate return the locking result with error malformedP2shBytecode and is
\* not evaluated; a well-formed one is evaluated on a fresh state whose stack
\* is the unlocking stack without its top item.
C7_MalformedRedeemScript ==
  (OnP2shPath /\ ~Exempt) =>
    IF authenticationInstructionsAreMalformed(parseBytecode(TopItem))
      THEN /\ result = [lockingResult EXCEPT !.error = "malformedP2shBytecode"]
           /\ ~Evaluated("p2sh")
    ELSE /\ Len(calls) = 3
         /\ calls[3] = Call("p2sh", RedeemState)
         /\ result = stateEvaluate(RedeemState)

C7_Witness ==
  /\ pc = "done"
  /\ OnP2shPath
  /\ ~Exempt
  /\ authenticationInstructionsAreMalformed(parseBytecode(TopItem))
  /\ BelowTop # <<>>
  /\ lockingResult.error = NoError
  /\ result.error = "malformedP2shBytecode"

\* the acceptance predicate as the specification states it
Accepts(state) ==
  /\ state.error = NoError
  /\ state.executionStack = <<>>
  /\ Len(state.stack) = 1
  /\ stackItemIsTruthy(Last(state.stack))

\* C8: verify(state) holds iff the state has no error, an empty execution
\* stack and exactly one stack item, which is truthy; two or more stack items,
\* or an open conditional, are rejected even under a truthy top item.
C8_VerifyPredicate ==
  /\ \A state \in {unlockingResult, lockingResult, result} :
       /\ verify(state) <=> Accepts(state)
       /\ Len(state.stack) >= 2 => ~verify(state)
       /\ Len(state.executionStack) > 0 => ~verify(state)
  /\ pc = "verified" => (verdict <=> Accepts(result))

C8_Witness ==
  /\ pc = "verified"
  /\ ~verdict
  /\ result.error = NoError
  /\ result.executionStack = <<>>
  /\ Len(result.stack) = 2
  /\ stackItemIsTruthy(Last(result.stack))
  /\ ~stackItemIsTruthy(result.stack[1])

(***************************************************************************)
(* The scripts reduced: sequences of bytecode, comment and error segments, *)
(* a push or an evaluation alone or beside one such segment, and two       *)
(* pushes or evaluations side by side.  The ranges of the top-level        *)
(* segments follow one another, overlap, or are out of order; the k-th     *)
(* child of a push or an evaluation lies on line k.                        *)
(***************************************************************************)
MaxScriptLen == 2

MaxChildLen == 2

TopRanges == { Range(1, 1, 1, 2), Range(1, 2, 2, 1), Range(2, 1, 2, 2) }

ChildRange(k) == Range(k, 1, k, 2)

LeafSegment(kind, range) ==
  CASE kind = "OP_1" -> BytecodeSegment(<<OP_1>>, range)
    [] kind = "OP_PUSHBYTES_1" -> BytecodeSegment(<<OP_PUSHBYTES_1>>, range)
    [] kind = "OP_ADD" -> BytecodeSegment(<<OP_ADD>>, range)
    [] kind = "comment" -> CommentSegment("note", range)
    [] kind = "error" -> ErrorSegment("Unknown identifier 'a'.", range)

LeafKinds == {"OP_1", "OP_PUSHBYTES_1", "comment", "error"}

ChildKinds == LeafKinds \cup {"OP_ADD"}

Leaves == { LeafSegment(kind, range) : kind \in LeafKinds, range \in TopRanges }

ChildScript(kinds) == [k \in 1..Len(kinds) |-> LeafSegment(kinds[k], ChildRange(k))]

\* children which are themselves pushes or evaluations, a child of two
\* instructions, and children whose ranges are out of order
NestedScripts ==
  { << PushSegment(<<>>, ChildRange(1)) >>,
    << PushSegment(ChildScript(<<"OP_1">>), ChildRange(1)) >>,
    << EvaluationSegment(ChildScript(<<"OP_1", "OP_1">>), ChildRange(1)) >>,
    << PushSegment(ChildScript(<<"OP_1">>), ChildRange(1)),
       PushSegment(ChildScript(<<"OP_1">>), ChildRange(2)),
       LeafSegment("OP_ADD", ChildRange(3)) >>,
    << LeafSegment("OP_1", ChildRange(1)),
       BytecodeSegment(<<OP_ADD, OP_1>>, ChildRange(2)) >>,
    << LeafSegment("OP_1", ChildRange(2)), LeafSegment("comment", ChildRange(1)) >>,
    << LeafSegment("OP_1", Range(1, 2, 2, 1)), LeafSegment("OP_1", Range(1, 1, 1, 2)) >> }

ChildScripts ==
  { ChildScript(kinds) : kinds \in RawSeqs(ChildKinds, MaxChildLen) }
    \cup NestedScripts

Containers ==
  { PushSegment(script, Range(1, 1, 2, 2)) : script \in ChildScripts }
    \cup { EvaluationSegment(script, Range(2, 1, 2, 2)) : script \in ChildScripts }

ShortContainers == { c \in Containers : Len(c.script) < MaxChildLen }

ResolvedScripts ==
  RawSeqs(Leaves, MaxScriptLen)
    \cup { <<c>> : c \in Containers }
    \cup { <<c, l>> : c \in Containers, l \in Leaves }
    \cup { <<l, c>> : l \in Leaves, c \in Containers }
    \cup { <<c, d>> : c \in ShortContainers, d \in ShortContainers }

\* reduceScript(script), reduceScript(script, vm) and
\* reduceScript(script, vm, createState)
Machines ==
  { NoMachine, [vm |-> TRUE, createState |-> FALSE],
    [vm |-> TRUE, createState |-> TRUE] }

InitReduce ==
  /\ pc = "reduce"
  /\ compiledScript \in ResolvedScripts
  /\ machine \in Machines
  /\ reduction = emptyReductionTraceNode(NoRange)
  /\ thrown = FALSE
  /\ EvaluateIdle
  /\ MergeIdle
  /\ ResolveIdle
  /\ Bech32Idle
  /\ WasmIdle

NextReduce == ReduceScript

SpecReduce == InitReduce /\ [][NextReduce]_vars

(***************************************************************************)
(* Properties of reduceScript.                                             *)
(***************************************************************************)
Reduced == pc = "reduced" /\ ~thrown

\* the number of bytes of the first n nodes
RECURSIVE BytesBefore(_, _)
BytesBefore(nodes, n) ==
  IF n = 0 THEN 0 ELSE BytesBefore(nodes, n - 1) + Len(nodes[n].bytecode)

\* bytes is the bytecode of the nodes, one after the other
IsConcatenationOf(bytes, nodes) ==
  /\ Len(bytes) = BytesBefore(nodes, Len(nodes))
  /\ \A i \in 1..Len(nodes) :
       SubSeq(bytes, BytesBefore(nodes, i - 1) + 1, BytesBefore(nodes, i))
         = nodes[i].bytecode

StartOf(range) == <<range.startLineNumber, range.startColumn>>

EndOf(range) == <<range.endLineNumber, range.endColumn>>

Earlier(p, q) == p[1] < q[1] \/ (p[1] = q[1] /\ p[2] <= q[2])

\* range starts at the earliest start and ends at the latest end of ranges
IsMergeOf(range, ranges) ==
  /\ \E r \in ranges : StartOf(r) = StartOf(range)
  /\ \E r \in ranges : EndOf(r) = EndOf(range)
  /\ \A r \in ranges : Earlier(StartOf(range), StartOf(r))
  /\ \A r \in ranges : Earlier(EndOf(r), EndOf(range))

\* the scripts reduceScript is called on recursively: the children of the
\* pushes and evaluations which were reduced
Descends(segment, node) ==
  /\ segment.type \in {"push", "evaluation"}
  /\ Len(segment.script) > 0
  /\ Len(node.source) = 1

RECURSIVE ConcatenatesChildren(_, _)
ConcatenatesChildren(script, node) ==
  /\ Len(node.source) = Len(script)
  /\ IsConcatenationOf(node.bytecode, node.source)
  /\ IsMergeOf(node.range, {script[i].range : i \in 1..Len(script)})
  /\ \A i \in 1..Len(script) :
       /\ node.source[i].range = script[i].range
       /\ script[i].type = "bytecode" =>
            node.source[i].bytecode = script[i].value
       /\ script[i].type = "comment" => node.source[i].bytecode = <<>>
       /\ Descends(script[i], node.source[i]) =>
            ConcatenatesChildren(script[i].script, node.source[i].source[1])

\* C9: for every non-empty ResolvedScript, at the top level and in every
\* reduced child script, the node reduceScript returns has one source entry
\* per segment in the same order, its bytecode is the concatenation in that
\* order of the entries' bytecode, its range is the merge (earliest start,
\* latest end) of the segments' ranges, a bytecode segment contributes its
\* bytes verbatim and a comment segment contributes zero bytes.
C9_ConcatenatesChildrenInOrder ==
  Reduced => ConcatenatesChildren(compiledScript, reduction)

\* two different bytecode segments, the later one first in the text, so that
\* the merged range is neither segment's range
C9_Witness ==
  /\ Reduced
  /\ Len(compiledScript) = 2
  /\ compiledScript[1].type = "bytecode"
  /\ compiledScript[2].type = "bytecode"
  /\ compiledScript[1].value # compiledScript[2].value
  /\ compiledScript[2].range.startLineNumber
       < compiledScript[1].range.startLineNumber
  /\ reduction.bytecode = compiledScript[1].value \o compiledScript[2].value
  /\ reduction.range \notin {compiledScript[1].range, compiledScript[2].range}

\* whether every push of the script, at any depth, emitted the data push of
\* its child's reduced bytecode; `emptyPush` is what a push with an empty
\* child list has to emit
RECURSIVE PushesEncoded(_, _, _)
PushesEncoded(script, node, emptyPush) ==
  \A i \in 1..Len(script) :
    /\ (script[i].type = "push" /\ Len(script[i].script) = 0) =>
         node.source[i].bytecode = emptyPush
    /\ (script[i].type = "push" /\ Len(script[i].script) > 0) =>
         /\ node.source[i].bytecode
              = encodeDataPush(node.source[i].source[1].bytecode)
         /\ node.source[i].source[1].bytecode = <<>> =>
              node.source[i].bytecode = <<OP_0>>
    /\ Descends(script[i], node.source[i]) =>
         PushesEncoded(script[i].script, node.source[i].source[1], emptyPush)

WithMachine == machine.vm /\ machine.createState

\* the state the VM ends in when it evaluates the instructions of bytecode
FinalState(bytecode) == stateEvaluate(createState(parseBytecode(bytecode)))

TopOrEmpty(stack) == IF Len(stack) = 0 THEN <<>> ELSE stack[Len(stack)]

\* an evaluation of a non-empty child which was reduced with no error
EvaluatedCleanly(segment, node) ==
  /\ segment.type = "evaluation"
  /\ WithMachine
  /\ Descends(segment, node)
  /\ ~node.errors.defined

RECURSIVE EvaluationsTakeTop(_, _)
EvaluationsTakeTop(script, node) ==
  \A i \in 1..Len(script) :
    /\ EvaluatedCleanly(script[i], node.source[i]) =>
         /\ node.source[i].bytecode
              = TopOrEmpty(FinalState(node.source[i].source[1].bytecode).stack)
         /\ parseBytecode(node.source[i].source[1].bytecode) = <<>> =>
              /\ Len(node.source[i].samples) = 1
              /\ node.source[i].samples[1].state = createState(<<>>)
    /\ Descends(script[i], node.source[i]) =>
         EvaluationsTakeTop(script[i].script, node.source[i].source[1])

\* C11: the bytecode of every Evaluation segment reduced with a VM and a
\* state factory and without errors is the top stack item, as it is, of the
\* final state the VM reaches on the child's instructions, and is empty when
\* that stack is empty; when the child has no instructions the state sampled
\* is the freshly created state of an empty instruction list.
C11_EvaluationEmitsTopStackItem ==
  Reduced => EvaluationsTakeTop(compiledScript, reduction)

\* an evaluation of a push opcode and its payload in two segments: the item
\* pushed is emitted bare
C11_Witness ==
  /\ Reduced
  /\ \E i \in 1..Len(compiledScript) :
       /\ EvaluatedCleanly(compiledScript[i], reduction.source[i])
       /\ reduction.source[i].source[1].bytecode = <<OP_PUSHBYTES_1, OP_1>>
       /\ reduction.source[i].bytecode = <<OP_1>>

\* the instructions of well-formed, non-empty bytecode end in an error
EndsInError(bytecode) ==
  /\ Len(parseBytecode(bytecode)) > 0
  /\ authenticationInstructionsAreNotMalformed(parseBytecode(bytecode))
  /\ FinalState(bytecode).error # NoError

RECURSIVE EvaluationErrorsReported(_, _)
EvaluationErrorsReported(script, node) ==
  \A i \in 1..Len(script) :
    /\ ( /\ script[i].type = "evaluation"
         /\ WithMachine
         /\ Descends(script[i], node.source[i])
         /\ EndsInError(node.source[i].source[1].bytecode) ) =>
         /\ node.source[i].errors.defined
         /\ node.source[i].bytecode = <<>>
    /\ Descends(script[i], node.source[i]) =>
         EvaluationErrorsReported(script[i].script, node.source[i].source[1])

\* C12: whenever the VM evaluation of an Evaluation segment's instructions
\* ends in a state with an error, at any instruction, the last included, the
\* segment's node carries a reduction error and empty bytecode.
C12_VmErrorIsReported ==
  Reduced => EvaluationErrorsReported(compiledScript, reduction)

\* the error entries of the first n nodes, one node after the other
RECURSIVE ErrorsBefore(_, _)
ErrorsBefore(nodes, n) ==
  IF n = 0 THEN <<>>
  ELSE ErrorsBefore(nodes, n - 1)
         \o (IF nodes[n].errors.defined THEN nodes[n].errors.list ELSE <<>>)

\* the errors of node are those of its source entries, in order, and are
\* absent exactly when no source entry has errors
CollectsErrors(node) ==
  /\ node.errors.defined <=>
       \E i \in 1..Len(node.source) : node.source[i].errors.defined
  /\ node.errors.defined =>
       node.errors.list = ErrorsBefore(node.source, Len(node.source))

RECURSIVE ErrorsCollected(_, _)
ErrorsCollected(script, node) ==
  /\ CollectsErrors(node)
  /\ IsConcatenationOf(node.bytecode, node.source)
  /\ \A i \in 1..Len(script) :
       /\ script[i].type = "error" =>
            /\ node.source[i].bytecode = <<>>
            /\ node.source[i].errors.defined
            /\ Len(node.source[i].errors.list) = 1
            /\ node.source[i].errors.list[1].range = script[i].range
       /\ script[i].type \in {"bytecode", "comment"} =>
            ~node.source[i].errors.defined
       /\ (script[i].type = "push" /\ Descends(script[i], node.source[i])) =>
            node.source[i].errors = node.source[i].source[1].errors
       /\ (script[i].type = "evaluation"
             /\ Descends(script[i], node.source[i])
             /\ node.source[i].source[1].errors.defined) =>
            /\ node.source[i].errors.defined
            /\ SubSeq(node.source[i].errors.list, 1,
                      Len(node.source[i].source[1].errors.list))
                 = node.source[i].source[1].errors.list
       /\ Descends(script[i], node.source[i]) =>
            ErrorsCollected(script[i].script, node.source[i].source[1])

\* the position, from 1, of the instruction at which the evaluation of
\* bytecode halts with an error
FailingInstruction(bytecode) ==
  Len(stateDebug(createState(parseBytecode(bytecode))))

\* the first of the aggregations which reaches instruction k
OriginOf(aggregations, k) ==
  aggregations[CHOOSE j \in 1..Len(aggregations) :
                 /\ aggregations[j].lastIp >= k
                 /\ \A h \in 1..(j - 1) : aggregations[h].lastIp < k]

\* the range of the child segments holding the instruction which fails
OriginRange(node) ==
  OriginOf(SelectSeq(aggregatedParseReductionTraceNodes(node.source).aggregations,
                     nonEmpty),
           FailingInstruction(node.bytecode)).range

\* an evaluation whose only error is a failure of the VM
ReportsVmError(segment, node) ==
  /\ segment.type = "evaluation"
  /\ WithMachine
  /\ Descends(segment, node)
  /\ ~node.source[1].errors.defined
  /\ EndsInError(node.source[1].bytecode)
  /\ node.errors.defined

RECURSIVE VmErrorsAtOrigin(_, _)
VmErrorsAtOrigin(script, node) ==
  \A i \in 1..Len(script) :
    /\ ReportsVmError(script[i], node.source[i]) =>
         /\ Len(node.source[i].errors.list) = 1
         /\ node.source[i].errors.list[1].range
              = OriginRange(node.source[i].source[1])
    /\ Descends(script[i], node.source[i]) =>
         VmErrorsAtOrigin(script[i].script, node.source[i].source[1])

\* the part of C13 on the order of the errors: the errors of a reduced script
\* are the errors of its child segments in source order, those nested in
\* pushes and evaluations included, absent exactly when no child has any; an
\* Error segment gives one entry with its own range and zero bytes, and the
\* bytecode of its siblings is still emitted.
ErrorsCollectedInOrder ==
  Reduced => ErrorsCollected(compiledScript, reduction)

\* C13: reduction errors are collected in source order (as above), and every
\* entry carries the range of the segment it originated in: the entry of a
\* failed evaluation carries the range of the child segments which hold the
\* failing instruction.
C13_ErrorsInOrderWithOriginRange ==
  Reduced => /\ ErrorsCollected(compiledScript, reduction)
             /\ VmErrorsAtOrigin(compiledScript, reduction)

(***************************************************************************)
(* The lists of ranges merged: up to MaxRanges ranges between positions on *)
(* MaxLine lines of two columns, in any order.                             *)
(***************************************************************************)
MaxRanges == 3

MaxLine == 2

Positions == (1..MaxLine) \X {1, 2}

NotAfter(p, q) == p[1] < q[1] \/ (p[1] = q[1] /\ p[2] <= q[2])

RangesFrom(p) ==
  { Range(p[1], p[2], q[1], q[2]) : q \in {e \in Positions : NotAfter(p, e)} }

Ranges == UNION { RangesFrom(p) : p \in Positions }

RangeLists == UNION { [1..n -> Ranges] : n \in 1..MaxRanges }

\* mergeRanges(ranges) as called on a list which is not empty
MergeRanges ==
  /\ pc = "merge"
  /\ mergedRange' = mergeRanges(rangesGiven)
  /\ pc' = "merged"
  /\ UNCHANGED <<outsideMerge, rangesGiven>>

InitMerge ==
  /\ pc = "merge"
  /\ rangesGiven \in RangeLists
  /\ mergedRange = NoRange
  /\ EvaluateIdle
  /\ ReduceIdle
  /\ ResolveIdle
  /\ Bech32Idle
  /\ WasmIdle

NextMerge == MergeRanges

SpecMerge == InitMerge /\ [][NextMerge]_vars

(***************************************************************************)
(* Properties of mergeRanges.                                              *)
(***************************************************************************)
Swapped(list, i, j) ==
  [k \in 1..Len(list) |-> IF k = i THEN list[j] ELSE IF k = j THEN list[i] ELSE list[k]]

\* C19: mergeRanges of a one-element list is that range; of any non-empty
\* list it is the range from the lexicographically least (line, column)
\* start to the lexicographically greatest end of the list; exchanging two
\* ranges of the list does not change it, and merging the merges of a first
\* and a second part of the list gives the merge of the whole list.
C19_MergeIsMinStartMaxEnd ==
  pc = "merged" =>
    /\ Len(rangesGiven) = 1 => mergedRange = rangesGiven[1]
    /\ IsMergeOf(mergedRange, {rangesGiven[i] : i \in 1..Len(rangesGiven)})
    /\ \A i, j \in 1..Len(rangesGiven) :
         mergeRanges(Swapped(rangesGiven, i, j)) = mergedRange
    /\ \A k \in 1..(Len(rangesGiven) - 1) :
         mergeRanges(<< mergeRanges(SubSeq(rangesGiven, 1, k)),
                        mergeRanges(SubSeq(rangesGiven, k + 1, Len(rangesGiven))) >>)
           = mergedRange

\* three ranges out of order, with the least start and the greatest end
\* decided by columns, whose merge is none of them
C19_Witness ==
  /\ pc = "merged"
  /\ Len(rangesGiven) = 3
  /\ mergedRange \notin {rangesGiven[i] : i \in 1..3}
  /\ rangesGiven[2].startLineNumber = rangesGiven[3].startLineNumber
  /\ rangesGiven[2].startColumn > rangesGiven[3].startColumn
  /\ rangesGiven[1].endLineNumber = rangesGiven[2].endLineNumber
  /\ rangesGiven[1].endColumn > rangesGiven[2].endColumn
  /\ StartOf(mergedRange) = StartOf(rangesGiven[3])
  /\ EndOf(mergedRange) = EndOf(rangesGiven[1])

(***************************************************************************)
(* The environments, identifiers and parse trees resolved.                 *)
(***************************************************************************)
MaxNodes == 2

MaxReferences == 2

TableNames ==
  {"key", "hdKey", "addressData", "walletData", "currentBlockHeight",
   "currentBlockTime", "signingSerialization"}

\* the byte by which the operations of a table are told apart
TableByte(name) ==
  CASE name = "key" -> 1
    [] name = "hdKey" -> 2
    [] name = "addressData" -> 3
    [] name = "walletData" -> 4
    [] name = "currentBlockHeight" -> 5
    [] name = "currentBlockTime" -> 6
    [] name = "signingSerialization" -> 7

TableShapes == {"function", "failing", "empty", "mapping", "failingMapping"}

TableOf(shape, name) ==
  CASE shape = "function" ->
         FunctionTable(Operation(name, Bytes(<< TableByte(name) >>)))
    [] shape = "failing" ->
         FunctionTable(Operation(name, String("Unable to use " \o name)))
    [] shape = "empty" -> MappingTable(<<>>)
    [] shape = "mapping" ->
         MappingTable([o \in {"op"} |->
           Operation(name \o "." \o o, Bytes(<< TableByte(name), 0 >>))])
    [] shape = "failingMapping" ->
         MappingTable([o \in {"op"} |->
           Operation(name \o "." \o o,
                     String("Unable to use " \o name \o "." \o o))])

OperationTables ==
  { [name \in included |-> TableOf(shape, name)] :
      included \in {{}, {"hdKey", "currentBlockTime"}, TableNames},
      shape \in TableShapes }

VariableTypes == {"AddressData", "HdKey", "Key", "WalletData"}

Variables ==
  { [name \in declared |-> type] :
      declared \in {{}, {"a"}}, type \in VariableTypes }

Opcodes ==
  { [name \in named |-> IF name = "OP_1" THEN << OP_1 >> ELSE << OP_ADD >>] :
      named \in {{}, {"OP_1"}, {"OP_1", "a", "a.op"}} }

TopRange == Range(1, 1, MaxNodes + 1, 1)

InnerRange(k) == Range(k, 2, k, 2)

\* the script whose text is "1"
LeafScript == BtlScript(<< BtlBigIntLiteral(1, ChildRange(1)) >>, TopRange)

\* the script whose text is the identifiers `references`
ReferringScript(references) ==
  BtlScript([k \in 1..Len(references) |->
               BtlIdentifier(<< references[k] >>, ChildRange(k))],
            TopRange)

Scripts ==
  { <<>>,
    [name \in {"a"} |-> LeafScript],
    [name \in {"a", "b"} |->
       IF name = "a" THEN LeafScript ELSE ReferringScript(<< "a" >>)],
    [name \in {"a"} |-> ReferringScript(<< "zz" >>)],
    [name \in {"a"} |-> ReferringScript(<< "a" >>)] }

Environment(opcodes, variables, operations, scripts, sourceScriptIds) ==
  [opcodes |-> opcodes, variables |-> variables, operations |-> operations,
   scripts |-> scripts, sourceScriptIds |-> sourceScriptIds]

Identifiers ==
  { << "a" >>, << "a", "op" >>, << "a", "other" >>, << "a", "op", "x" >>,
    << "b" >>, << "OP_1" >>, << "zz" >>,
    << current_block_height >>, << current_block_height, "op" >>,
    << current_block_time >>,
    << signing_serialization >>, << signing_serialization, "op" >> }

\* the script being compiled and the scripts being compiled around it
Compiling ==
  { << None, Absent >>, << Some("b"), Absent >>,
    << Some("b"), Present(<< "b" >>) >> }

SegmentEnvironments ==
  { NoEnvironment,
    Environment([name \in {"OP_1"} |-> << OP_1 >>],
                [name \in {"a"} |-> "Key"],
                [name \in TableNames |-> TableOf("mapping", name)],
                [name \in {"b"} |-> LeafScript], Absent),
    Environment([name \in {"OP_1"} |-> << OP_1 >>],
                [name \in {"a"} |-> "HdKey"],
                [name \in TableNames |-> TableOf("failingMapping", name)],
                [name \in {"b"} |-> ReferringScript(<< "zz" >>)], Absent) }

SegmentIdentifiers ==
  { << "OP_1" >>, << "a" >>, << "a", "op" >>, << "b" >>, << "zz" >> }

LeafNodes(range) ==
  { BtlIdentifier(identifier, range) : identifier \in SegmentIdentifiers }
  \cup { BtlBigIntLiteral(1, range), BtlHexLiteral(<< 0, 1, 10, 11 >>, range),
         BtlUTF8Literal(<< 97, 233 >>, range), BtlComment("note", range),
         BtlNode("Unknown", <<>>, NoScript, 0, <<>>, <<>>, "", range) }

InnerNodes(k) ==
  { BtlIdentifier(<< "a", "op" >>, InnerRange(k)),
    BtlBigIntLiteral(1, InnerRange(k)),
    BtlPush(BtlScript(<<>>, Range(k, 3, k, 3)), InnerRange(k)),
    BtlEvaluation(BtlScript(<<>>, Range(k, 3, k, 3)), InnerRange(k)) }

InnerScripts(k) ==
  { BtlScript(<<>>, InnerRange(k)) }
  \cup { BtlScript(<< node >>, InnerRange(k)) : node \in InnerNodes(k) }

\* the nodes which can be child k of the segment resolved
Nodes(k) ==
  LeafNodes(ChildRange(k))
  \cup { BtlPush(script, ChildRange(k)) : script \in InnerScripts(k) }
  \cup { BtlEvaluation(script, ChildRange(k)) : script \in InnerScripts(k) }

RECURSIVE ChildLists(_)
ChildLists(n) ==
  IF n = 0 THEN { <<>> }
  ELSE { Append(children, node) :
           children \in ChildLists(n - 1), node \in Nodes(n) }

ScriptIds == {"a", "b", "c"}

RECURSIVE ReferenceLists(_)
ReferenceLists(n) ==
  IF n = 0 THEN { <<>> }
  ELSE { Append(references, id) :
           references \in ReferenceLists(n - 1), id \in ScriptIds }

\* the texts with at most n references
Bodies(n) ==
  UNION { { ReferringScript(references) : references \in ReferenceLists(m) } :
            m \in 0..n }

GivenIdentifier ==
  /\ \E opcodes \in Opcodes, variables \in Variables,
        operations \in OperationTables, scripts \in Scripts,
        compiling \in Compiling :
       /\ givenEnvironment =
            Environment(opcodes, variables, operations, scripts,
                        compiling[2])
       /\ givenScriptId = compiling[1]
  /\ givenIdentifier \in Identifiers
  /\ givenSegment = NoScript

InitResolve ==
  /\ \/ /\ pc \in {"resolveVariable", "resolveIdentifier"}
        /\ GivenIdentifier
     \/ /\ pc = "resolveSegment"
        /\ givenEnvironment \in SegmentEnvironments
        /\ givenScriptId \in {None, Some("c")}
        /\ givenIdentifier = <<>>
        /\ \E n \in 0..MaxNodes :
             \E children \in ChildLists(n) :
               givenSegment = BtlScript(children, TopRange)
     \/ /\ pc = "compile"
        /\ \E a \in Bodies(MaxReferences), b \in Bodies(1), c \in Bodies(1) :
             givenEnvironment =
               Environment(<<>>, <<>>, <<>>,
                 [id \in ScriptIds |->
                    IF id = "a" THEN a ELSE IF id = "b" THEN b ELSE c],
                 Absent)
        /\ givenScriptId \in { Some(id) : id \in ScriptIds }
        /\ givenIdentifier = <<>>
        /\ givenSegment = NoScript
  /\ NothingReturned
  /\ EvaluateIdle
  /\ ReduceIdle
  /\ MergeIdle
  /\ Bech32Idle
  /\ WasmIdle

NextResolve ==
  \/ ResolveVariableIdentifier
  \/ ResolveIdentifier
  \/ ResolveScriptSegment
  \/ CompileScript

SpecResolve == InitResolve /\ [][NextResolve]_vars

(***************************************************************************)
(* The identifier resolver.                                                *)
(***************************************************************************)
ResolvedIdentifier == pc = "resolvedIdentifier"

\* the identifier's variableId names a built-in or a declared variable
NamesVariable(environment, identifier) ==
  \/ identifier[1] \in BuiltInVariables
  \/ identifier[1] \in DOMAIN environment.variables

ResolvesFirstMatch(environment, identifier, returned) ==
  IF Join(identifier) \in DOMAIN environment.opcodes
    THEN /\ returned.status
         /\ returned.type = "opcode"
         /\ returned.bytecode = environment.opcodes[Join(identifier)]
  ELSE IF NamesVariable(environment, identifier)
    THEN /\ returned.type = "variable"
         /\ returned.status => returned.error = ""
         /\ ~returned.status => returned.bytecode = <<>>
  ELSE IF Join(identifier) \in DOMAIN environment.scripts
    THEN returned.type = "script"
  ELSE /\ ~returned.status
       /\ returned.type = "unknown"
       /\ returned.error = "Unknown identifier '" \o Join(identifier) \o "'."

\* C14: the identifier resolver takes the first match in the order opcode,
\* variable, script, unknown: an identifier among environment.opcodes
\* resolves to the opcode's bytes whatever variables and scripts are named
\* like it; otherwise one whose variableId is built in or declared resolves
\* as a variable, in success or in error, never as a script; otherwise one
\* among environment.scripts resolves as a script; otherwise the result is
\* the error of type unknown with the message "Unknown identifier '<id>'."
C14_ResolvesFirstMatch ==
  ResolvedIdentifier =>
    ResolvesFirstMatch(givenEnvironment, givenIdentifier,
                       resolutionReturned.value)

\* an opcode was resolved which a variable and a script are named like
C14_Witness ==
  /\ ResolvedIdentifier
  /\ Join(givenIdentifier) \in DOMAIN givenEnvironment.opcodes
  /\ Join(givenIdentifier) \in DOMAIN givenEnvironment.variables
  /\ Join(givenIdentifier) \in DOMAIN givenEnvironment.scripts
  /\ resolutionReturned.value.type = "opcode"
  /\ resolutionReturned.value.bytecode = << OP_ADD >>

(***************************************************************************)
(* The segment of an identifier.                                           *)
(***************************************************************************)
ResolvedSegment == pc = "resolvedSegment"

\* how many of the properties opcode, variable and script a segment has
Discriminators(segment) ==
  Cardinality({ property \in {"opcode", "variable", "script"} :
                  segment.properties[property].defined })

\* the bytecode segment of an identifier: just one of opcode, variable and
\* script, holding the identifier
IsIdentifierBytecode(segment, identifier) ==
  /\ segment.type = "bytecode"
  /\ Discriminators(segment) = 1
  /\ \A property \in {"opcode", "variable", "script"} :
       segment.properties[property].defined =>
         segment.properties[property].value = Join(identifier)
  /\ ~segment.properties.literalType.defined
  /\ segment.properties.source.defined = segment.properties.script.defined
  /\ segment.text = ""

IsIdentifierError(segment) ==
  /\ segment.type = "error"
  /\ Discriminators(segment) = 0
  /\ segment.value = <<>>
  /\ segment.text # ""

\* the segment of the Identifier node `child`
OfIdentifier(segment, child, scriptId, environment) ==
  /\ segment.range = child.range
  /\ IsIdentifierBytecode(segment, child.identifier)
       \/ IsIdentifierError(segment)
  /\ ~(IsIdentifierBytecode(segment, child.identifier)
        /\ IsIdentifierError(segment))
  /\ (segment.type = "bytecode") =
       createIdentifierResolver(scriptId, environment,
                                child.identifier).value.status

\* every Identifier node of `children`, nested ones included, has its one
\* segment at its own place in `resolved`
RECURSIVE IdentifiersResolved(_, _, _, _)
IdentifiersResolved(children, resolved, scriptId, environment) ==
  /\ Len(children) > 0 => Len(resolved) = Len(children)
  /\ \A k \in 1..Len(children) :
       CASE children[k].name = "Identifier" ->
              OfIdentifier(resolved[k], children[k], scriptId, environment)
         [] children[k].name \in {"Push", "Evaluation"} ->
              IdentifiersResolved(children[k].script.children,
                                  resolved[k].script, scriptId, environment)
         [] OTHER -> TRUE

\* C15: for every Identifier node and every environment, resolveScriptSegment
\* produces exactly one segment, which is either a bytecode segment with
\* exactly one of the properties opcode, variable and script, or an error
\* segment, never both and never neither, and is a bytecode segment exactly
\* when the resolver's status is true
C15_IdentifierYieldsBytecodeOrError ==
  ResolvedSegment =>
    IdentifiersResolved(givenSegment.children, scriptReturned.value,
                        givenScriptId, givenEnvironment)

\* an identifier was resolved to a script's bytecode next to one resolved to
\* an error
C15_Witness ==
  /\ ResolvedSegment
  /\ Len(scriptReturned.value) = 2
  /\ givenSegment.children[1].name = "Identifier"
  /\ givenSegment.children[2].name = "Identifier"
  /\ scriptReturned.value[1].type = "bytecode"
  /\ scriptReturned.value[1].properties.script = Some("b")
  /\ scriptReturned.value[1].value = << 1 >>
  /\ scriptReturned.value[2].type = "error"
  /\ scriptReturned.value[2].text = "Unknown identifier 'zz'."

(***************************************************************************)
(* The operation of a variable.                                            *)
(***************************************************************************)
ResolvedVariable == pc = "resolvedVariable"

\* the table named by a built-in variable or by the declared type
TableNameFor(environment, variableId) ==
  CASE variableId = "current_block_height" -> "currentBlockHeight"
    [] variableId = "current_block_time" -> "currentBlockTime"
    [] variableId = "signing_serialization" -> "signingSerialization"
    [] OTHER ->
         CASE environment.variables[variableId] = "Key" -> "key"
           [] environment.variables[variableId] = "HdKey" -> "hdKey"
           [] environment.variables[variableId] = "AddressData" ->
                "addressData"
           [] environment.variables[variableId] = "WalletData" ->
                "walletData"

ExampleFor(environment, variableId) ==
  CASE variableId = "signing_serialization" -> "version"
    [] variableId \in {"current_block_height", "current_block_time"} ->
         "operation_identifier"
    [] OTHER ->
         IF environment.variables[variableId] \in {"Key", "HdKey"}
           THEN "public_key" ELSE "operation_identifier"

\* just `invocable` was invoked, with the identifier, and what it returned
\* is the result
Called(returned, invocable, identifier) ==
  /\ returned.invoked =
       << [operation |-> invocable.name, identifier |-> Join(identifier)] >>
  /\ returned.value = invocable.returns
  /\ returned.value.kind \in {"bytes", "string"}

\* no operation was invoked and the result is the error `text`
Refused(returned, text) ==
  /\ returned.invoked = <<>>
  /\ returned.value = String(text)

DispatchedIn(table, tableName, identifier, returned, example) ==
  CASE table.kind = "function" ->
         /\ Called(returned, table.operation, identifier)
         /\ table.operation.name = tableName
    [] table.kind = "mapping" /\ Len(identifier) = 1 ->
         Refused(returned,
           "This \"" \o identifier[1]
           \o "\" variable could not be resolved because this compiler's \""
           \o tableName
           \o "\" operations require an operation identifier, e.g. '"
           \o identifier[1] \o "." \o example \o "'.")
    [] table.kind = "mapping" /\ Len(identifier) > 1
         /\ identifier[2] \notin DOMAIN table.mapping ->
         Refused(returned,
           "The identifier \"" \o Join(identifier)
           \o "\" could not be resolved because the \"" \o identifier[1]
           \o "." \o identifier[2]
           \o "\" operation is not available to this compiler.")
    [] OTHER ->
         /\ Called(returned, table.mapping[identifier[2]], identifier)
         /\ table.mapping[identifier[2]].name
              = tableName \o "." \o identifier[2]

Dispatched(environment, identifier, returned) ==
  IF ~NamesVariable(environment, identifier)
    THEN returned = Returned_(False, <<>>)
  ELSE IF TableNameFor(environment, identifier[1])
            \notin DOMAIN environment.operations
    THEN /\ returned.invoked = <<>>
         /\ returned.value.kind = "string"
         /\ returned.value.text # ""
  ELSE DispatchedIn(
         environment.operations[TableNameFor(environment, identifier[1])],
         TableNameFor(environment, identifier[1]), identifier, returned,
         ExampleFor(environment, identifier[1]))

\* C17: variable resolution selects the operation table by the built-in
\* name or by the variable's declared type, and then: an absent table yields
\* an error string; a table which is a function is called whether or not
\* there is an operationId; a mapping with no operationId yields the
\* "require an operation identifier" error; a mapping without the
\* operationId yields the "operation is not available" error; otherwise the
\* mapped operation is called and what it returns, bytes or an error
\* string, is the result.  No operation is invoked in the three error cases.
C17_DispatchesOperation ==
  ResolvedVariable =>
    Dispatched(givenEnvironment, givenIdentifier, variableReturned)

\* the function which is the table of the Key variables was called for an
\* identifier with an operationId
C17_Witness ==
  /\ ResolvedVariable
  /\ givenIdentifier = << "a", "other" >>
  /\ "a" \in DOMAIN givenEnvironment.variables
  /\ givenEnvironment.variables["a"] = "Key"
  /\ "key" \in DOMAIN givenEnvironment.operations
  /\ givenEnvironment.operations["key"].kind = "function"
  /\ variableReturned.invoked =
       << [operation |-> "key", identifier |-> "a.other"] >>
  /\ variableReturned.value = Bytes(<< 1 >>)

(***************************************************************************)
(* The resolved script of a segment without children.                      *)
(***************************************************************************)
\* the one empty comment which spans `range`
EmptyComment(range) ==
  << Resolved(CommentSegment("", range), NoProperties) >>

\* `resolved`, the resolved script of `segment`, is not empty, is the empty
\* comment when the segment has no children, and so at every level below
RECURSIVE NeverEmpty(_, _)
NeverEmpty(segment, resolved) ==
  /\ Len(resolved) >= 1
  /\ Len(segment.children) = 0 => resolved = EmptyComment(segment.range)
  /\ Len(segment.children) > 0 => Len(resolved) = Len(segment.children)
  /\ \A k \in 1..Len(segment.children) :
       segment.children[k].name \in {"Push", "Evaluation"} =>
         /\ resolved[k].type
              = (IF segment.children[k].name = "Push" THEN "push"
                 ELSE "evaluation")
         /\ NeverEmpty(segment.children[k].script, resolved[k].script)

\* reduceScript merges the ranges of the segments of `resolved`
MergesRangesOf(resolved) ==
  /\ Len(resolved) >= 1
  /\ IsMergeOf(reduceScript(resolved, CompilerMachine).range,
               { resolved[k].range : k \in 1..Len(resolved) })

\* C18: resolveScriptSegment never returns an empty ResolvedScript: a parse
\* node without children resolves to exactly one comment segment with the
\* value "" and the range of that node, at every level of nesting, so every
\* push and evaluation of a resolved tree has a script which is not empty
\* and reduceScript, given what the resolver returned, has at least one
\* range to merge
C18_ResolvedScriptNeverEmpty ==
  ResolvedSegment =>
    /\ NeverEmpty(givenSegment, scriptReturned.value)
    /\ MergesRangesOf(scriptReturned.value)

\* an evaluation of a push without children was resolved: the script of the
\* push is the empty comment on the range between its delimiters
C18_Witness ==
  /\ ResolvedSegment
  /\ Len(givenSegment.children) = 1
  /\ givenSegment.children[1].name = "Evaluation"
  /\ Len(givenSegment.children[1].script.children) = 1
  /\ givenSegment.children[1].script.children[1].name = "Push"
  /\ scriptReturned.value[1].script[1].type = "push"
  /\ scriptReturned.value[1].script[1].script
       = EmptyComment(Range(1, 3, 1, 3))

(***************************************************************************)
(* Circular dependencies between scripts.                                  *)
(***************************************************************************)
CompiledScript == pc = "compiled"

\* the scripts which the text of script `id` refers to
References(environment, id) ==
  { environment.scripts[id].children[k].identifier[1] :
      k \in 1..Len(environment.scripts[id].children) }

\* the scripts reached from `from` by at most n references after the first
RECURSIVE ReachedIn(_, _, _)
ReachedIn(environment, from, n) ==
  IF n = 0 THEN UNION { References(environment, id) : id \in from }
  ELSE ReachedIn(environment, from, n - 1)
       \cup UNION { References(environment, id) :
                      id \in ReachedIn(environment, from, n - 1) }

ReachedFrom(environment, id) ==
  ReachedIn(environment, {id}, Cardinality(DOMAIN environment.scripts))

\* script `id` is on a directed cycle
OnCycle(environment, id) == id \in ReachedFrom(environment, id)

\* a directed cycle can be reached from script `id`
ReachesCycle(environment, id) ==
  \E other \in {id} \cup ReachedFrom(environment, id) :
    OnCycle(environment, other)

\* each script of `chain` refers to the next one
IsChain(environment, chain) ==
  \A i \in 1..(Len(chain) - 1) :
    chain[i + 1] \in References(environment, chain[i])

NoDuplicates(list) ==
  \A i, j \in 1..Len(list) : list[i] = list[j] => i = j

\* a circular dependency met while compiling `root`: the scripts listed are
\* the chain of compilations from `root` on, whose last script refers back
\* to one of the chain; that script was being compiled again, and the error
\* is raised for a script it refers to
DetectedFrom(environment, root, cycle) ==
  /\ Len(cycle.sourceScriptIds) >= 1
  /\ cycle.sourceScriptIds[1] = root
  /\ IsChain(environment, cycle.sourceScriptIds)
  /\ NoDuplicates(cycle.sourceScriptIds)
  /\ \E j \in 1..Len(cycle.sourceScriptIds) :
       /\ cycle.sourceScriptIds[j]
            \in References(environment,
                  cycle.sourceScriptIds[Len(cycle.sourceScriptIds)])
       /\ cycle.identifier
            \in References(environment, cycle.sourceScriptIds[j])
       /\ \A i \in j..Len(cycle.sourceScriptIds) :
            OnCycle(environment, cycle.sourceScriptIds[i])

\* no script refers to more than one script, or to one more than once
SingleReferences(environment) ==
  \A id \in DOMAIN environment.scripts :
    Len(environment.scripts[id].children) <= 1

\* C16 (amended): compiling a script from which a directed cycle of scripts
\* can be reached fails, with at least one circular dependency error; each
\* such error lists, in the order of their compilation, the scripts being
\* compiled from the compiled script down to the one which refers back into
\* the list, the scripts from that one on being on a cycle; there is exactly
\* one such error when every script refers to at most one script
C16_CycleYieldsCycleErrors ==
  (CompiledScript
     /\ ReachesCycle(givenEnvironment, givenScriptId.value)) =>
    /\ ~compilationReturned.value.success
    /\ Len(compilationReturned.value.errors) >= 1
    /\ Len(compilationReturned.cycles) >= 1
    /\ \A k \in 1..Len(compilationReturned.cycles) :
         DetectedFrom(givenEnvironment, givenScriptId.value,
                      compilationReturned.cycles[k])
    /\ SingleReferences(givenEnvironment) =>
         /\ Len(compilationReturned.cycles) = 1
         /\ Len(compilationReturned.value.errors) = 1

\* the scripts a is "b" and b is "a": compiling a yields the one error of
\* its identifier b, which holds the one circular dependency error, listing
\* a, b
C16_Witness ==
  /\ CompiledScript
  /\ givenScriptId = Some("a")
  /\ givenEnvironment.scripts["a"] = ReferringScript(<< "b" >>)
  /\ givenEnvironment.scripts["b"] = ReferringScript(<< "a" >>)
  /\ compilationReturned.cycles
       = << [identifier |-> "b", sourceScriptIds |-> << "a", "b" >>] >>
  /\ Len(compilationReturned.value.errors) = 1
  /\ compilationReturned.value.errors[1].error
       = "Tried to reduce a BTL script with resolution errors: "
         \o "Compilation error in resolved script, \"b\": "
         \o "Tried to reduce a BTL script with resolution errors: "
         \o "Compilation error in resolved script, \"a\": "
         \o "Tried to reduce a BTL script with resolution errors: "
         \o "A circular dependency was encountered. Script \"b\" relies on "
         \o "itself to be generated. (Parent scripts: a, b) [1, 1] [1, 1]"

\* C16 as stated: compiling a script from which a directed cycle can be
\* reached yields exactly one cycle error, which lists the scripts of the
\* cycle in the order of their visit
C16_ExactlyOneCycleError ==
  (CompiledScript
     /\ ReachesCycle(givenEnvironment, givenScriptId.value)) =>
    /\ Len(compilationReturned.cycles) = 1
    /\ IsChain(givenEnvironment, compilationReturned.cycles[1].sourceScriptIds)
    /\ \A i \in 1..Len(compilationReturned.cycles[1].sourceScriptIds) :
         OnCycle(givenEnvironment,
                 compilationReturned.cycles[1].sourceScriptIds[i])

(***************************************************************************)
(* The strings tested by isBech32.                                         *)
(***************************************************************************)
MaxLength == 4

\* characters of the set with the values 0, 1, 2, 4, 8, 16 and 31, and two
\* characters which are not of the set
Characters == {"q", "p", "z", "y", "g", "s", "l", "b", "1"}

RECURSIVE Strings(_)
Strings(n) ==
  IF n = 0 THEN { <<>> }
  ELSE { Append(text, character) :
           text \in Strings(n - 1), character \in Characters }

InitBech32 ==
  /\ pc = "isBech32"
  /\ \E n \in 0..MaxLength : bech32Given \in Strings(n)
  /\ bech32Returned = FALSE
  /\ PaddedIdle
  /\ EvaluateIdle
  /\ ReduceIdle
  /\ MergeIdle
  /\ ResolveIdle
  /\ WasmIdle

NextBech32 == IsBech32

SpecBech32 == InitBech32 /\ [][NextBech32]_vars

TestedBech32 == pc = "testedBech32"

\* the value of the last character's bits which are padding
PaddingBits(text) ==
  bech32CharacterSetIndex(text[Len(text)]).value
    % (2 ^ ((5 * Len(text)) % 8))

\* C20: isBech32(s) is true only if s has only characters of the bech32
\* character set, its padding of (5 * |s|) mod 8 bits is fewer than 5 bits,
\* and those bits, the low bits of the last character's value, are all
\* zero: a string whose last character has a padding bit which is not zero
\* is rejected
C20_PaddingBitsAreZero ==
  (TestedBech32 /\ bech32Returned) =>
    /\ onlyBech32Characters(bech32Given)
    /\ (5 * Len(bech32Given)) % 8 < 5
    /\ Len(bech32Given) > 0 => PaddingBits(bech32Given) = 0

\* what the code tests: the characters and the number of padding bits
IsBech32IgnoresPaddingBits ==
  TestedBech32 =>
    bech32Returned = (/\ onlyBech32Characters(bech32Given)
                      /\ (5 * Len(bech32Given)) % 8 < 5)

(***************************************************************************)
(* The operation identifier of a variable.                                 *)
(***************************************************************************)
\* the identifier names a variable whose table is a mapping
DispatchesInMapping(environment, identifier) ==
  /\ NamesVariable(environment, identifier)
  /\ TableNameFor(environment, identifier[1]) \in DOMAIN environment.operations
  /\ environment.operations[TableNameFor(environment, identifier[1])].kind
       = "mapping"

MappingFor(environment, identifier) ==
  environment.operations[TableNameFor(environment, identifier[1])].mapping

\* the text after the first dot
Remainder(identifier) == identifier[2] \o JoinFrom(identifier, 3)

\* the mapping is entered with `operationId`: the operation under that key
\* is invoked, with the whole identifier, when there is one, and none
\* otherwise
EnteredWith(mapping, operationId, identifier, returned) ==
  IF operationId \in DOMAIN mapping
    THEN Called(returned, mapping[operationId], identifier)
  ELSE returned.invoked = <<>> /\ returned.value.kind = "string"

\* C23 (amended): resolveVariableIdentifier splits the identifier at every
\* dot; variableId is the text before the first dot and operationId the
\* text between the first dot and the second, absent when there is no dot:
\* an operation mapping is entered with that second part, whatever follows
\* a second dot, and the operation is given the whole identifier
C23_DispatchesOnSecondPart ==
  (ResolvedVariable
     /\ DispatchesInMapping(givenEnvironment, givenIdentifier)) =>
    IF Len(givenIdentifier) = 1
      THEN /\ variableReturned.invoked = <<>>
           /\ variableReturned.value.kind = "string"
    ELSE EnteredWith(MappingFor(givenEnvironment, givenIdentifier),
                     givenIdentifier[2], givenIdentifier, variableReturned)

\* a.op.x was resolved in a mapping which has the operation op: op was
\* invoked, with a.op.x
C23_Witness ==
  /\ ResolvedVariable
  /\ givenIdentifier = << "a", "op", "x" >>
  /\ DispatchesInMapping(givenEnvironment, givenIdentifier)
  /\ DOMAIN MappingFor(givenEnvironment, givenIdentifier) = {"op"}
  /\ Len(variableReturned.invoked) = 1
  /\ variableReturned.invoked[1].identifier = "a.op.x"
  /\ variableReturned.value.kind = "bytes"

\* C23 as stated: the operationId with which an operation mapping is
\* entered is all the text after the first dot, also for identifiers with
\* two dots or more
C23_DispatchesOnRemainder ==
  (ResolvedVariable
     /\ DispatchesInMapping(givenEnvironment, givenIdentifier)
     /\ Len(givenIdentifier) >= 2) =>
    EnteredWith(MappingFor(givenEnvironment, givenIdentifier),
                Remainder(givenIdentifier), givenIdentifier,
                variableReturned)

(***************************************************************************)
(* The nesting of compilations.                                            *)
(***************************************************************************)
\* the script graph has no directed cycle
Acyclic(environment) ==
  \A id \in DOMAIN environment.scripts : ~OnCycle(environment, id)

\* a nested call of compileScript made while compiling `root`: its
\* sourceScriptIds is the chain of the scripts being compiled around it,
\* from `root` to the script which refers to the one compiled, without
\* duplicates
NestedIn(environment, root, compilation) ==
  /\ compilation.sourceScriptIds.defined
  /\ Len(compilation.sourceScriptIds.list) >= 1
  /\ compilation.sourceScriptIds.list[1] = root
  /\ IsChain(environment, compilation.sourceScriptIds.list)
  /\ compilation.scriptId
       \in References(environment,
             compilation.sourceScriptIds.list[
               Len(compilation.sourceScriptIds.list)])
  /\ NoDuplicates(compilation.sourceScriptIds.list)
  /\ Len(compilation.sourceScriptIds.list) + 1
       <= Cardinality(DOMAIN environment.scripts) + 1

\* C29: the resolution of script identifiers terminates for every finite
\* environment.scripts, with or without cycles: the sourceScriptIds of each
\* nested compilation is the chain of the ids of the scripts being compiled
\* around it, without duplicates, so compilations are never nested deeper
\* than the number of scripts plus one, and a script graph without directed
\* cycle never yields a circular dependency error
C29_CompilationsNestBoundedly ==
  CompiledScript =>
    /\ Len(compilationReturned.compilations) >= 1
    /\ compilationReturned.compilations[1]
         = [scriptId |-> givenScriptId.value, sourceScriptIds |-> Absent]
    /\ \A k \in 2..Len(compilationReturned.compilations) :
         NestedIn(givenEnvironment, givenScriptId.value,
                  compilationReturned.compilations[k])
    /\ Acyclic(givenEnvironment) =>
         /\ compilationReturned.cycles = <<>>
         /\ compilationReturned.value.success

\* a was compiled inside b inside a inside c: four compilations deep, with
\* three scripts
C29_Witness ==
  /\ CompiledScript
  /\ givenScriptId = Some("c")
  /\ \E k \in 1..Len(compilationReturned.compilations) :
       compilationReturned.compilations[k]
         = [scriptId |-> "a",
            sourceScriptIds |-> Present(<< "c", "a", "b" >>)]
  /\ ~compilationReturned.value.success

(***************************************************************************)
(* The aggregation of the child nodes of an evaluation.                    *)
(***************************************************************************)
\* the nodes of the child script of an evaluation's node
ChildNodes(node) == node.source[1].source

\* the bytecode of nodes, one node after the other
ChildBytecode(nodes) ==
  flattenBinArray([k \in 1..Len(nodes) |-> nodes[k].bytecode])

\* an evaluation of a non-empty child, reduced with a VM and a state factory
EvaluatedWithMachine(segment, node) ==
  /\ segment.type = "evaluation"
  /\ WithMachine
  /\ Descends(segment, node)

ErrorsOf(node) == IF node.errors.defined THEN node.errors.list ELSE <<>>

\* the first error the evaluation adds to those of its child is that of a
\* malformed sample
ReportsMalformedSample(node) ==
  /\ Len(ErrorsOf(node)) > Len(ErrorsOf(node.source[1]))
  /\ ErrorsOf(node)[Len(ErrorsOf(node.source[1])) + 1].error
       = "A sample is malformed and cannot be evaluated: "

\* the instructions of the state given to vm.debug
HandedToVm(nodes) ==
  createState(
    planInstructions(
      SelectSeq(aggregatedParseReductionTraceNodes(nodes).aggregations,
                nonEmpty))).instructions

AggregatesWholeOf(node, whole) ==
  /\ ReportsMalformedSample(node)
       <=> authenticationInstructionsAreMalformed(whole)
  /\ ~authenticationInstructionsAreMalformed(whole) =>
       /\ HandedToVm(ChildNodes(node)) = whole
       /\ \A k \in 1..Len(node.samples) :
            node.samples[k].defined =>
              node.samples[k].state.instructions = whole

RECURSIVE AggregatesWhole(_, _)
AggregatesWhole(script, node) ==
  \A i \in 1..Len(script) :
    /\ EvaluatedWithMachine(script[i], node.source[i]) =>
         AggregatesWholeOf(node.source[i],
           parseBytecode(ChildBytecode(ChildNodes(node.source[i]))))
    /\ Descends(script[i], node.source[i]) =>
         AggregatesWhole(script[i].script, node.source[i].source[1])

HasInstructions(aggregation) == Len(aggregation.instructions) > 0

\* the state the VM is in after the first n instructions
RECURSIVE StateAfter(_, _)
StateAfter(state, n) ==
  IF n = 0 THEN state ELSE stateStep(StateAfter(state, n - 1))

\* samples holds one sample for each of the aggregations, in their order,
\* taken after the last instruction of the aggregation
SampleEach(samples, aggregations, instructions) ==
  /\ Len(samples) = Len(aggregations)
  /\ \A k \in 1..Len(aggregations) :
       /\ k <= Len(samples)
       /\ samples[k].defined
       /\ samples[k].range = aggregations[k].range
       /\ aggregations[k].lastIp >= 1
       /\ samples[k].state
            = StateAfter(createState(instructions), aggregations[k].lastIp)
       /\ samples[k].state
            = stateDebug(createState(instructions))[aggregations[k].lastIp]
  /\ \A k \in 1..(Len(aggregations) - 1) :
       aggregations[k].lastIp <= aggregations[k + 1].lastIp

SamplesOfAggregations(node, aggregations) ==
  evaluateInstructionAggregations(aggregations).success =>
    /\ Len(SelectSeq(aggregations, HasInstructions)) > 0 =>
         SampleEach(node.samples, SelectSeq(aggregations, HasInstructions),
                    planInstructions(aggregations))
    /\ Len(aggregations) > 0 =>
         /\ aggregations[Len(aggregations)].lastIp
              = Len(planInstructions(aggregations))
         /\ aggregations[Len(aggregations)].lastIp
              = Len(stateDebug(createState(planInstructions(aggregations))))

RECURSIVE SamplesInOrder(_, _)
SamplesInOrder(script, node) ==
  \A i \in 1..Len(script) :
    /\ EvaluatedWithMachine(script[i], node.source[i]) =>
         SamplesOfAggregations(node.source[i],
           aggregatedParseReductionTraceNodes(
             ChildNodes(node.source[i])).aggregations)
    /\ Descends(script[i], node.source[i]) =>
         SamplesInOrder(script[i].script, node.source[i].source[1])

\* C25: when the evaluation of an Evaluation segment's aggregations
\* succeeds, there is exactly one sample for each aggregation which holds an
\* instruction, the samples are in the order of the aggregations with
\* lastIp not decreasing, the state of each sample is the entry lastIp - 1
\* of the VM's trace, the state right after the last instruction of the
\* aggregation, and lastIp of the last aggregation is the number of
\* instructions evaluated.
C25_OneSamplePerAggregation ==
  Reduced => SamplesInOrder(compiledScript, reduction)

\* two instructions in two child segments: two samples, taken after the
\* first and after the second instruction
C25_Witness ==
  /\ Reduced
  /\ \E i \in 1..Len(compiledScript) :
       /\ EvaluatedWithMachine(compiledScript[i], reduction.source[i])
       /\ Len(ChildNodes(reduction.source[i])) = 2
       /\ ChildNodes(reduction.source[i])[1].bytecode = <<OP_1>>
       /\ ChildNodes(reduction.source[i])[2].bytecode = <<OP_1>>
       /\ Len(reduction.source[i].samples) = 2
       /\ reduction.source[i].samples[1].state.stack = << <<1>> >>
       /\ reduction.source[i].samples[2].state.stack = << <<1>>, <<1>> >>
       /\ ~reduction.source[i].errors.defined

(***************************************************************************)
(* Evaluations reduced without a VM or without a state factory.            *)
(***************************************************************************)
\* an evaluation of a non-empty child
IsEvaluation(segment) ==
  segment.type = "evaluation" /\ Len(segment.script) > 0

RECURSIVE RefusesEvaluations(_, _)
RefusesEvaluations(script, node) ==
  /\ Len(node.source) = Len(script)
  /\ IsConcatenationOf(node.bytecode, node.source)
  /\ \A i \in 1..Len(script) :
       /\ IsEvaluation(script[i]) =>
            /\ node.source[i].errors
                 = Present(<< ErrorInformation(
                     "Both a VM and a createState method are required to reduce evaluations.",
                     <<>>, script[i].range) >>)
            /\ node.source[i].range = script[i].range
            /\ node.source[i].bytecode = <<>>
            /\ node.source[i].source = <<>>
            /\ node.source[i].samples = <<>>
       /\ script[i].type = "bytecode" =>
            node.source[i].bytecode = script[i].value
       /\ Descends(script[i], node.source[i]) =>
            RefusesEvaluations(script[i].script, node.source[i].source[1])

\* C26: when reduceScript is given no VM or no state factory, the node of
\* every Evaluation segment with a non-empty child has exactly one error,
\* 'Both a VM and a createState method are required to reduce evaluations.',
\* with the range of the segment, and empty bytecode; the child is neither
\* reduced nor evaluated (the node has no source and no samples), and the
\* other segments of the script are reduced as ever.
C26_EvaluationNeedsMachine ==
  (Reduced /\ ~WithMachine) => RefusesEvaluations(compiledScript, reduction)

\* an evaluation followed by OP_1, reduced with a VM and no state factory:
\* the one error, and the bytecode of the sibling
C26_Witness ==
  /\ Reduced
  /\ machine = [vm |-> TRUE, createState |-> FALSE]
  /\ Len(compiledScript) = 2
  /\ IsEvaluation(compiledScript[1])
  /\ compiledScript[2].type = "bytecode"
  /\ reduction.bytecode = <<OP_1>>
  /\ reduction.source[1].source = <<>>
  /\ reduction.errors.defined
  /\ Len(reduction.errors.list) = 1
  /\ reduction.errors.list[1].range = compiledScript[1].range

(***************************************************************************)
(* The commitment of a P2SH locking bytecode.                              *)
(***************************************************************************)
\* the locking evaluation ends with an error or with a falsy top stack item
LockingFails ==
  \/ lockingResult.error # NoError
  \/ Len(lockingResult.stack) = 0
  \/ ~stackItemIsTruthy(Last(lockingResult.stack))

\* C28: for a locking bytecode of the P2SH pattern, outside the
\* SegWit-recovery exemption, when the locking evaluation (OP_HASH160, the
\* 20 bytes, OP_EQUAL on the unlocking stack) ends with an error or with a
\* falsy top stack item, the state evaluate returns does not satisfy verify,
\* whatever the redeem script evaluates to.
C28_P2shRequiresCommitment ==
  (OnP2shPath /\ ~Exempt /\ Evaluated("locking") /\ LockingFails) =>
    /\ ~verify(result)
    /\ pc = "verified" => ~verdict

(***************************************************************************)
(* The byte arrays encoded and the strings decoded: arrays of up to        *)
(* MaxBytes bytes, the strings tested by isBech32, and strings of up to    *)
(* MaxPaddedLength characters, long enough for the accumulator of          *)
(* regroupBits to exceed 32 bits.                                          *)
(***************************************************************************)
MaxBytes == 5

MaxPaddedLength == 7

ByteValues == {0, 1, 170, 255}

RECURSIVE ByteArrays(_)
ByteArrays(n) ==
  IF n = 0 THEN { <<>> }
  ELSE { Append(bytes, byte) : bytes \in ByteArrays(n - 1), byte \in ByteValues }

\* characters of the set with the values 0, 16 and 31, and a character which
\* is not of the set
LongCharacters == {"q", "s", "l", "1"}

RECURSIVE LongStrings(_)
LongStrings(n) ==
  IF n = 0 THEN { <<>> }
  ELSE { Append(text, character) :
           text \in LongStrings(n - 1), character \in LongCharacters }

InitBech32Padded ==
  /\ \/ /\ pc = "binToBech32Padded"
        /\ \E n \in 0..MaxBytes : bytesGiven \in ByteArrays(n)
        /\ paddedGiven = <<>>
     \/ /\ pc = "bech32PaddedToBin"
        /\ bytesGiven = <<>>
        /\ \/ \E n \in 0..MaxLength : paddedGiven \in Strings(n)
           \/ \E n \in 0..MaxPaddedLength : paddedGiven \in LongStrings(n)
  /\ binReturned = False
  /\ paddedReturned = <<>>
  /\ bech32Given = <<>>
  /\ bech32Returned = FALSE
  /\ EvaluateIdle
  /\ ReduceIdle
  /\ MergeIdle
  /\ ResolveIdle
  /\ WasmIdle

NextBech32Padded ==
  \/ BinToBech32Padded
  \/ Bech32PaddedToBinOfEncoded
  \/ Bech32PaddedToBin
  \/ BinToBech32PaddedOfDecoded

SpecBech32Padded == InitBech32Padded /\ [][NextBech32Padded]_vars

(***************************************************************************)
(* Properties of bech32PaddedToBin and binToBech32Padded.                  *)
(***************************************************************************)
\* C21: bech32PaddedToBin is the reverse of binToBech32Padded: for every
\* byte array b, bech32PaddedToBin(binToBech32Padded(b)) returns bytes equal
\* to b and never an error string, and for every string s on which
\* bech32PaddedToBin returns bytes, binToBech32Padded of those bytes is s.
C21_PaddedRoundTrips ==
  /\ pc = "decodedBack" => binReturned = Bytes(bytesGiven)
  /\ pc = "encodedBack" => paddedReturned = paddedGiven

\* five bytes, which the accumulator of 32 bits does not hold at once, are
\* encoded in eight characters and decoded again
C21_Witness ==
  /\ pc = "decodedBack"
  /\ bytesGiven = <<255, 170, 1, 0, 255>>
  /\ Len(paddedReturned) = 8
  /\ binReturned.kind = "bytes"

\* the strings of which bytes are decoded are encoded again
EncodedBack ==
  /\ pc = "encodedBack"
  /\ paddedGiven = << "l", "s", "q", "l", "s", "q", "s" >>
  /\ binReturned = Bytes(<<252, 1, 248, 2>>)

\* C27: bech32PaddedToBin returns a byte array only for strings which have
\* only characters of the bech32 character set, fewer than 5 padding bits
\* ((5 * |s|) mod 8), and all padding bits, the low bits of the last
\* character's value, zero; for every other string it returns an error
\* string, Bech32DecodingError.notBech32Padded or a BitRegroupingError, and
\* never a byte array.
C27_BytesOnlyOfPaddedBech32 ==
  pc \in {"decoded", "encodedBack"} =>
    /\ binReturned.kind \in {"bytes", "string"}
    /\ binReturned.kind = "bytes" =>
         /\ onlyBech32Characters(paddedGiven)
         /\ (5 * Len(paddedGiven)) % 8 < 5
         /\ Len(paddedGiven) > 0 => PaddingBits(paddedGiven) = 0
    /\ binReturned.kind = "string" =>
         /\ binReturned.text
              \in {notBech32Padded, integerOutOfRange, hasDisallowedPadding,
                   requiresDisallowedPadding}
         /\ ~ ( /\ onlyBech32Characters(paddedGiven)
                /\ (5 * Len(paddedGiven)) % 8 < 5
                /\ Len(paddedGiven) > 0 => PaddingBits(paddedGiven) = 0 )

\* two characters whose two padding bits are 01: isBech32 accepts the
\* string, and regroupBits refuses it
C27_Witness ==
  /\ pc = "decoded"
  /\ paddedGiven = << "q", "p" >>
  /\ isBech32(paddedGiven)
  /\ binReturned = String(requiresDisallowedPadding)

(***************************************************************************)
(* The calls of the wrappers: each of hash, init, update and final, on     *)
(* arrays of zero to two bytes, in a memory where no region or one region  *)
(* is allocated already.                                                   *)
(***************************************************************************)
WasmArrays == { <<>>, <<7>>, <<1, 2>> }

WasmCall(operationName, arrays) ==
  [operation |-> operationName, given |-> arrays, arrays |-> arrays]

WasmCalls ==
  { WasmCall("init", <<>>) }
    \cup { WasmCall("hash", <<input>>) : input \in WasmArrays }
    \cup { WasmCall("final", <<rawState>>) : rawState \in WasmArrays }
    \cup { WasmCall("update", <<rawState, input>>) :
             rawState \in WasmArrays, input \in WasmArrays }

InitWasm ==
  /\ pc = "passArrays"
  /\ wasmCall \in WasmCalls
  /\ \/ wasmMemory = [buffer |-> 0, blocks |-> <<>>, ret |-> 0]
     \/ \E ptr \in Pointers :
          wasmMemory = allocate([buffer |-> 0, blocks |-> <<>>, ret |-> 0],
                                ptr, <<9>>, 0)
  /\ wasmLocals = [pointers |-> <<>>, ptr |-> 0, realRet |-> NoArray,
                   thrown |-> FALSE, freed |-> 0]
  /\ wasmLog = <<>>
  /\ wasmReturned = NoArray
  /\ EvaluateIdle
  /\ ReduceIdle
  /\ MergeIdle
  /\ ResolveIdle
  /\ Bech32Idle

NextWasm ==
  \/ PassArray8ToWasm
  \/ GlobalArgumentPtr
  \/ ExportReturns
  \/ ExportThrows
  \/ GetArrayU8FromWasm
  \/ Slice
  \/ FreeResult
  \/ SetRawState
  \/ FreeArgument
  \/ EndFinally
  \/ Return
  \/ LaterCall

SpecWasm == InitWasm /\ [][NextWasm]_vars

(***************************************************************************)
(* Properties of the wrappers.                                             *)
(***************************************************************************)
\* the positions of the log with the event `name` of the region ptr
Positions32(name, ptr) ==
  { i \in 1..Len(wasmLog) : wasmLog[i].event = name /\ wasmLog[i].ptr = ptr }

\* the wrapper has returned a value
ReturnedArray == pc \in {"returned", "later"} /\ ~wasmLocals.thrown

\* C22: in hash, init, update and final, the bytes returned are copied out
\* of the view of the linear memory before the region of the result is
\* freed and before any later call into the module can invalidate the view:
\* the copy is made right after the view is taken, the __wbindgen_free of
\* the result pointer is after the copy, and the value returned is an array
\* of its own with the bytes the export wrote, whatever happens to the
\* memory afterwards.
C22_ResultCopiedBeforeFree ==
  /\ \A i \in 1..Len(wasmLog) :
       /\ wasmLog[i].event = "view" =>
            (i < Len(wasmLog) => wasmLog[i + 1].event = "slice")
       /\ (wasmLog[i].event = "free" /\ wasmLog[i].ptr = wasmLocals.ptr) =>
            \E j \in 1..(i - 1) :
              wasmLog[j].event = "slice" /\ wasmLog[j].ptr = wasmLocals.ptr
  /\ ReturnedArray =>
       /\ wasmReturned.kind = "copy"
       /\ wasmReturned.bytes = exported(wasmCall.operation, wasmCall.given)
       /\ Positions32("slice", wasmLocals.ptr) # {}
       /\ Positions32("free", wasmLocals.ptr) # {}

\* update has returned, the memory has grown since the result was copied
\* and the region of the result is allocated again
C22_Witness ==
  /\ pc = "later"
  /\ wasmCall.operation = "update"
  /\ wasmReturned.kind = "copy"
  /\ wasmReturned.bytes = exported("update", << <<1, 2>>, <<7>> >>)
  /\ wasmLocals.ptr \in DOMAIN wasmMemory.blocks
  /\ wasmMemory.blocks[wasmLocals.ptr] = <<0, 0, 0>>
  /\ wasmMemory.buffer = MaxGrowths

\* the pointers passArray8ToWasm allocated
Arguments == { wasmLocals.pointers[k] : k \in 1..Len(wasmLocals.pointers) }

\* C30: in hash, update and final, every argument buffer allocated with
\* __wbindgen_malloc during the call is freed exactly once before the call
\* completes, when the export returns and when it throws, and no pointer is
\* freed twice: every free is of a region which is allocated.
C30_ArgumentsFreedOnce ==
  /\ \A i \in 1..Len(wasmLog) :
       wasmLog[i].event = "free" =>
         /\ wasmLog[i].allocated
         /\ Cardinality(Positions32("free", wasmLog[i].ptr)) = 1
  /\ (pc \in {"return", "returned", "later"}
      /\ wasmCall.operation \in {"hash", "update", "final"}) =>
       /\ Len(wasmLocals.pointers) = Len(wasmCall.arrays)
       /\ Cardinality(Arguments) = Len(wasmCall.arrays)
       /\ \A ptr \in Arguments :
            /\ Cardinality(Positions32("malloc", ptr)) = 1
            /\ Cardinality(Positions32("free", ptr)) = 1
       /\ pc # "later" => Arguments \cap DOMAIN wasmMemory.blocks = {}

\* update, whose export threw, has freed both its arguments
C30_Witness ==
  /\ pc = "returned"
  /\ wasmCall.operation = "update"
  /\ wasmLocals.thrown
  /\ wasmReturned = Exception
  /\ Cardinality(Arguments) = 2
  /\ \A ptr \in Arguments : Cardinality(Positions32("free", ptr)) = 1

====
